---- MODULE Spec2Model ----
(***************************************************************************)
(* brex-cli: one invocation of the command-line client.                    *)
(*                                                                         *)
(* An invocation takes a stored bearer token, a command name and its       *)
(* argument list, routes to the command's run(), scans the options, calls  *)
(* the client's fetch (zero, one or two HTTP exchanges), and renders the   *)
(* result on standard output or fails with an error.                       *)
(*                                                                         *)
(* Spec is one invocation; SpecRepeat is a sequence of invocations of the  *)
(* mutating commands, which share the platform's UUID generator;           *)
(* SpecRegistry is the start-up that registers the command descriptors;    *)
(* SpecExtract is extractItems applied on its own to an envelope and a key *)
(* order; SpecLive is one invocation whose exchanges are all answered.     *)
(***************************************************************************)
EXTENDS Integers, Sequences, FiniteSets, TLC

\* ------------------------------------------------------------------ bounds

\* Longest argument list (after the command name) an invocation is given.
MaxArgs == 3

\* Most idempotency keys generated over a sequence of invocations.
MaxKeys == 2

\* Longest drawn argument list of an invocation whose termination is checked.
MaxLiveArgs == 2

\* --------------------------------------------------------------- JS values

\* args[i] past the end of the array, an unset option, a missing field.
Undefined == "<undefined>"

\* JavaScript's !value for an optional string: undefined, null or "".
Falsy(v) == v = Undefined \/ v = "<null>" \/ v = ""

\* args[i], undefined past the end.
At(args, i) == IF i \in 1..Len(args) THEN args[i] ELSE Undefined

\* args.slice(n): the elements after the first n.
Slice(args, n) == IF n >= Len(args) THEN <<>> ELSE SubSeq(args, n + 1, Len(args))

\* The tokens of the vocabulary that begin with "-" (String.startsWith("-")).
DashTokens ==
    { "--json", "--bogus", "-x", "--type", "--cursor", "--email", "--user-id",
      "--limit", "--event-type", "--after-date", "--before-date",
      "--posted-at-start", "--start-time", "--start", "--scope", "--account-id",
      "--url", "--status", "--events", "--from", "--to", "--to-account",
      "--amount", "--currency", "--description", "--desc", "--memo",
      "--external-memo", "--idempotency-key", "--approval", "--name", "--phone",
      "--routing", "--account", "--account-type", "--account-class" }

StartsWithDash(tok) == tok \in DashTokens

\* String.startsWith("--"): every dash token of the vocabulary but "-x".
StartsWithDashDash(tok) == tok \in DashTokens \ {"-x"}

\* parseInt(value, 10) on the numeric tokens of the vocabulary: the leading
\* decimal digits; any other token gives NaN.
IntPrefix == ("5" :> 5) @@ ("5x" :> 5) @@ ("0" :> 0) @@ ("12" :> 12)

IsNaN(tok) == tok \notin DOMAIN IntPrefix

\* String(parsed) of a token parseInt accepted.
IntString(tok) == IF IntPrefix[tok] = 5 THEN "5" ELSE IF IntPrefix[tok] = 12 THEN "12" ELSE "0"

\* String.toUpperCase() on the tokens whose upper case an option compares with.
UpperTable ==
    ("manual" :> "MANUAL") @@ ("MANUAL" :> "MANUAL") @@
    ("checking" :> "CHECKING") @@ ("CHECKING" :> "CHECKING") @@
    ("saving" :> "SAVING") @@ ("business" :> "BUSINESS") @@
    ("personal" :> "PERSONAL") @@ ("usd" :> "USD")

ToUpperCase(tok) == IF tok \in DOMAIN UpperTable THEN UpperTable[tok] ELSE tok

\* The tokens of the vocabulary longer than 90 characters.
LongTokens == { "<91 characters>" }

\* ------------------------------------------------------------------ errors

\* new Error(message): the flag a message starts with (or ends with, for an
\* unknown option) and the rest of its text.
Err(name, flag, text) == [name |-> name, flag |-> flag, text |-> text]

NoError == Err("", "", "")

\* ----------------------------------------------------------- option tables

\* One `if (arg === "--flag") { const value = args[++i]; ... continue; }` block
\* of an option parser: the flag, how its value is checked, and the option it
\* sets.
StrFlag(flag, key) == [flag |-> flag, kind |-> "str", key |-> key, dom |-> {}]
IntFlag(flag, key) == [flag |-> flag, kind |-> "int", key |-> key, dom |-> {}]
EnumFlag(flag, key, dom) == [flag |-> flag, kind |-> "enum", key |-> key, dom |-> dom]
UpperEnumFlag(flag, key, dom) == [flag |-> flag, kind |-> "uenum", key |-> key, dom |-> dom]
UpperFlag(flag, key) == [flag |-> flag, kind |-> "upper", key |-> key, dom |-> {}]
MemoFlag(flag, key) == [flag |-> flag, kind |-> "memo", key |-> key, dom |-> {}]
SkipFlag(flag) == [flag |-> flag, kind |-> "skip", key |-> "", dom |-> {}]

\* The flags each option parser registers.
FlagTable(P) ==
    CASE P = "accounts.list" ->
           { EnumFlag("--type", "type", {"cash", "card", "all"}),
             StrFlag("--cursor", "cursor") }
      [] P = "accounts.get" ->
           { EnumFlag("--type", "type", {"cash", "card"}) }
      [] P = "users.list" ->
           { StrFlag("--cursor", "cursor"), StrFlag("--email", "email") }
      [] P = "cards.list" ->
           { StrFlag("--user-id", "userId"), StrFlag("--cursor", "cursor"),
             IntFlag("--limit", "limit") }
      [] P = "events.list" ->
           { StrFlag("--event-type", "eventType"), StrFlag("--after-date", "afterDate"),
             StrFlag("--before-date", "beforeDate"), StrFlag("--cursor", "cursor"),
             IntFlag("--limit", "limit") }
      [] P = "transactions.list" ->
           { EnumFlag("--type", "type", {"cash", "card"}), IntFlag("--limit", "limit"),
             StrFlag("--cursor", "cursor"), StrFlag("--posted-at-start", "postedAtStart"),
             StrFlag("--start-time", "postedAtStart"), StrFlag("--start", "postedAtStart") }
      [] P = "statements.shared" ->
           { EnumFlag("--scope", "scope", {"primary", "additional"}),
             StrFlag("--account-id", "accountId"), SkipFlag("--cursor") }
      [] P = "webhooks.list" ->
           { StrFlag("--cursor", "cursor"), IntFlag("--limit", "limit") }
      [] P \in {"webhooks.create", "webhooks.update"} ->
           { StrFlag("--url", "url"), StrFlag("--status", "status"),
             StrFlag("--events", "events") }
      [] P = "transfer.create" ->
           { StrFlag("--from", "fromAccountId"), StrFlag("--to", "toPaymentInstrumentId"),
             StrFlag("--to-account", "toDepositAccountId"), IntFlag("--amount", "amountCents"),
             UpperFlag("--currency", "currency"), StrFlag("--description", "description"),
             StrFlag("--desc", "description"), MemoFlag("--memo", "externalMemo"),
             MemoFlag("--external-memo", "externalMemo"),
             StrFlag("--idempotency-key", "idempotencyKey"),
             UpperEnumFlag("--approval", "approvalType", {"MANUAL"}) }
      [] P = "transfer.list" ->
           { StrFlag("--cursor", "cursor"), IntFlag("--limit", "limit") }
      [] P = "recipients.list" ->
           { IntFlag("--limit", "limit"), StrFlag("--cursor", "cursor"),
             StrFlag("--name", "name") }
      [] P = "recipients.create" ->
           { StrFlag("--name", "companyName"), StrFlag("--email", "email"),
             StrFlag("--phone", "phone"), StrFlag("--routing", "routingNumber"),
             StrFlag("--account", "accountNumber"),
             UpperEnumFlag("--account-type", "accountType", {"CHECKING", "SAVING"}),
             UpperEnumFlag("--account-class", "accountClass", {"BUSINESS", "PERSONAL"}),
             StrFlag("--idempotency-key", "idempotencyKey") }
      [] OTHER -> {}

\* The options a parser starts from (its `let` declarations).
Defaults(P) ==
    CASE P = "accounts.list" -> [type |-> "all", cursor |-> Undefined]
      [] P = "accounts.get" -> [type |-> Undefined]
      [] P = "users.list" -> [cursor |-> Undefined, email |-> Undefined]
      [] P = "cards.list" -> [userId |-> Undefined, cursor |-> Undefined, limit |-> Undefined]
      [] P = "events.list" ->
           [eventType |-> Undefined, afterDate |-> Undefined, beforeDate |-> Undefined,
            cursor |-> Undefined, limit |-> Undefined]
      [] P = "transactions.list" ->
           [type |-> "cash", limit |-> Undefined, cursor |-> Undefined,
            postedAtStart |-> Undefined]
      [] P = "statements.shared" ->
           [scope |-> "primary", accountId |-> Undefined, cursor |-> Undefined]
      [] P \in {"webhooks.list", "transfer.list"} ->
           [cursor |-> Undefined, limit |-> Undefined]
      [] P \in {"webhooks.create", "webhooks.update"} ->
           [url |-> Undefined, status |-> Undefined, events |-> Undefined]
      [] P = "transfer.create" ->
           [fromAccountId |-> Undefined, toPaymentInstrumentId |-> Undefined,
            toDepositAccountId |-> Undefined, amountCents |-> Undefined,
            currency |-> "USD", description |-> Undefined, externalMemo |-> Undefined,
            idempotencyKey |-> Undefined, approvalType |-> Undefined,
            counterpartyType |-> Undefined]
      [] P = "recipients.list" ->
           [limit |-> Undefined, cursor |-> Undefined, name |-> Undefined]
      [] P = "recipients.create" ->
           [companyName |-> Undefined, email |-> Undefined, phone |-> Undefined,
            routingNumber |-> Undefined, accountNumber |-> Undefined,
            accountType |-> Undefined, accountClass |-> Undefined,
            idempotencyKey |-> Undefined]
      [] OTHER -> [none |-> Undefined]

Registered(P, arg) == \E f \in FlagTable(P) : f.flag = arg

FlagOf(P, arg) == CHOOSE f \in FlagTable(P) : f.flag = arg

\* ------------------------------------------------------------ the scanner

\* How the scan read the token at index i: as a flag, as a flag's value, or
\* as a positional word it passed over.
Mark(roles, i, role) ==
    IF i \in DOMAIN roles THEN [roles EXCEPT ![i] = @ \cup {role}] ELSE roles

\* The state a scan starts in.
ScanStart(P, args) ==
    [opts |-> Defaults(P), roles |-> [i \in 1..Len(args) |-> {}], err |-> NoError]

\* The body of one flag block, given the value args[++i] it read.
Consume(f, arg, value, st) ==
    CASE f.kind \in {"str", "upper", "memo"} ->
           IF Falsy(value) THEN [st EXCEPT !.err = Err("Error", arg, "requires a value")]
           ELSE IF f.kind = "memo" /\ value \in LongTokens
                THEN [st EXCEPT !.err = Err("Error", "", "Memo must be at most 90 characters")]
           ELSE [st EXCEPT !.opts[f.key] =
                       IF f.kind = "upper" THEN ToUpperCase(value) ELSE value]
      [] f.kind = "int" ->
           IF Falsy(value) THEN [st EXCEPT !.err = Err("Error", arg, "requires a value")]
           ELSE IF IsNaN(value) \/ IntPrefix[value] <= 0
                THEN [st EXCEPT !.err = Err("Error", arg, "must be a positive integer")]
           ELSE [st EXCEPT !.opts[f.key] = IntString(value)]
      [] f.kind = "enum" ->
           IF Falsy(value) \/ value \notin f.dom
           THEN [st EXCEPT !.err = Err("Error", arg, "must be one of")]
           ELSE [st EXCEPT !.opts[f.key] = value]
      [] f.kind = "uenum" ->
           IF value = Undefined \/ ToUpperCase(value) \notin f.dom
           THEN [st EXCEPT !.err = Err("Error", arg, "must be")]
           ELSE [st EXCEPT !.opts[f.key] = ToUpperCase(value)]
      [] OTHER -> st

\* The index the loop goes on from after a flag block: args[++i] has taken the
\* value, and the loop's i += 1 steps over it.
AfterFlag(i) == i + 2

\* for (let i = 0; i < args.length; i += 1) { ... } of an option parser.
RECURSIVE ScanFrom(_, _, _, _)
ScanFrom(P, args, i, st) ==
    IF st.err # NoError \/ i > Len(args) THEN st
    ELSE LET arg == args[i] IN
         IF arg = "" THEN ScanFrom(P, args, i + 1, st)
         ELSE IF Registered(P, arg)
         THEN LET f == FlagOf(P, arg)
                  st1 == [st EXCEPT !.roles = Mark(Mark(@, i, "flag"), i + 1, "value")]
              IN ScanFrom(P, args, AfterFlag(i), Consume(f, arg, At(args, i + 1), st1))
         ELSE IF P = "statements.shared" /\ arg = "list"
         THEN ScanFrom(P, args, i + 1, [st EXCEPT !.roles = Mark(@, i, "positional")])
         ELSE IF StartsWithDash(arg)
         THEN [st EXCEPT !.err = Err("Error", arg, "Unknown option")]
         ELSE ScanFrom(P, args, i + 1, [st EXCEPT !.roles = Mark(@, i, "positional")])

\* The second loop of the statements list parser: it walks the same arguments
\* again and reads only --cursor.
RECURSIVE CursorScan(_, _, _)
CursorScan(args, i, st) ==
    IF st.err # NoError \/ i > Len(args) THEN st
    ELSE IF args[i] = "--cursor"
    THEN LET value == At(args, i + 1)
             st1 == [st EXCEPT !.roles = Mark(Mark(@, i, "flag"), i + 1, "value")]
         IN IF Falsy(value)
            THEN [st1 EXCEPT !.err = Err("Error", "--cursor", "requires a value")]
            ELSE CursorScan(args, i + 2, [st1 EXCEPT !.opts.cursor = value])
    ELSE CursorScan(args, i + 1, st)

\* A listing that lets a cursor through whatever the type.
CursorWithoutTypeNever(o) == FALSE

\* if (type === "all" && cursor) in the accounts list parser.
CursorWithoutType(o) == o.type = "all" /\ ~Falsy(o.cursor)

\* The checks a parser makes after its loop, in order; the first that fails
\* is the error thrown.
PostCheck(P, o) ==
    CASE P = "accounts.list" ->
           IF CursorWithoutType(o)
           THEN Err("Error", "--cursor", "can only be used with --type cash or --type card")
           ELSE NoError
      [] P = "statements.shared" ->
           IF o.scope = "additional" /\ Falsy(o.accountId)
           THEN Err("Error", "--account-id", "is required when --scope additional")
           ELSE NoError
      [] P = "webhooks.create" ->
           IF Falsy(o.url) THEN Err("Error", "", "Missing required --url") ELSE NoError
      [] P = "transfer.create" ->
           IF Falsy(o.fromAccountId) THEN Err("Error", "", "Missing required --from")
           ELSE IF Falsy(o.toPaymentInstrumentId) /\ Falsy(o.toDepositAccountId)
           THEN Err("Error", "", "Missing required --to or --to-account")
           ELSE IF ~Falsy(o.toPaymentInstrumentId) /\ ~Falsy(o.toDepositAccountId)
           THEN Err("Error", "", "Cannot use both --to and --to-account")
           ELSE IF Falsy(o.amountCents) THEN Err("Error", "", "Missing required --amount")
           ELSE IF Falsy(o.description) THEN Err("Error", "", "Missing required --description")
           ELSE IF Falsy(o.externalMemo) THEN Err("Error", "", "Missing required --memo")
           ELSE NoError
      [] P = "recipients.create" ->
           LET ach == { k \in {"routingNumber", "accountNumber", "accountType", "accountClass"} :
                          ~Falsy(o[k]) }
           IN IF Falsy(o.companyName) THEN Err("Error", "", "Missing required --name")
              ELSE IF Cardinality(ach) > 0 /\ Cardinality(ach) < 4
              THEN Err("Error", "", "ACH payment account requires all of")
              ELSE NoError
      [] OTHER -> NoError

\* The options a parser returns: the create parsers fill in the derived
\* fields, with crypto.randomUUID() when no idempotency key was given.
Finish(P, o, uuid) ==
    CASE P = "transfer.create" ->
           [o EXCEPT !.counterpartyType =
                        IF ~Falsy(o.toDepositAccountId) THEN "BOOK_TRANSFER" ELSE "VENDOR",
                     !.idempotencyKey = IF @ = Undefined THEN uuid ELSE @]
      [] P = "recipients.create" ->
           [o EXCEPT !.idempotencyKey = IF @ = Undefined THEN uuid ELSE @]
      [] OTHER -> o

\* The checks after the loop, made when the loop threw nothing.
Checked(P, s) == IF s.err # NoError THEN s ELSE [s EXCEPT !.err = PostCheck(P, s.opts)]

\* The statements list parser runs the shared parser to its end first, then
\* its own loop.
ThenCursor(P, args, s) ==
    IF P = "statements.list" /\ s.err = NoError THEN CursorScan(args, 1, s) ELSE s

\* The parser gets to `idempotencyKey ?? crypto.randomUUID()` with no key.
Keyless(P, s) ==
    /\ P \in {"transfer.create", "recipients.create"}
    /\ s.err = NoError
    /\ s.opts.idempotencyKey = Undefined

Parsed(P, args, uuid, s) ==
    [parser |-> P, args |-> args, roles |-> s.roles, err |-> s.err,
     opts |-> IF s.err = NoError THEN Finish(P, s.opts, uuid) ELSE s.opts,
     drew |-> Keyless(P, s)]

Shared(P) == IF P = "statements.list" THEN "statements.shared" ELSE P

\* An option parser as a whole: the scan, then the checks after the loop.
Parse(P, args, uuid) ==
    Parsed(P, args, uuid,
           ThenCursor(P, args,
                      Checked(Shared(P),
                              ScanFrom(Shared(P), args, 1, ScanStart(Shared(P), args)))))

\* No option parser ran.
NoScan == [parser |-> "", args |-> <<>>, roles |-> <<>>, err |-> NoError,
           opts |-> [none |-> Undefined], drew |-> FALSE]

\* ---------------------------------------------------------------- routing

\* parseOutputFlag(args): --json anywhere in the list selects JSON output and
\* is taken out of the arguments the command goes on to read.
parseOutputFlag(args) ==
    [format |-> IF \E i \in 1..Len(args) : args[i] = "--json" THEN "json" ELSE "table",
     args |-> SelectSeq(args, LAMBDA a : a # "--json")]

\* What run() decided: the error it threw, or the handler it calls with the
\* positional id and the scanned options.
Plan(fn, id, scan) == [err |-> scan.err, fn |-> fn, id |-> id, scan |-> scan]

Throw(e) == [err |-> e, fn |-> "", id |-> Undefined, scan |-> NoScan]

\* remaining[0] ?? "list"
OrList(remaining) == IF At(remaining, 1) = Undefined THEN "list" ELSE remaining[1]

accountsCommand(remaining, uuid) ==
    LET subcommand == OrList(remaining) IN
    CASE subcommand = "list" ->
           Plan("listAccounts", Undefined, Parse("accounts.list", Slice(remaining, 1), uuid))
      [] subcommand = "get" ->
           IF Falsy(At(remaining, 2)) THEN Throw(Err("Error", "", "Missing account ID"))
           ELSE Plan("getAccount", remaining[2], Parse("accounts.get", Slice(remaining, 2), uuid))
      [] OTHER -> Throw(Err("Error", "", "Unknown subcommand"))

usersCommand(remaining, uuid) ==
    LET subcommand == OrList(remaining) IN
    CASE subcommand = "list" ->
           Plan("listUsers", Undefined, Parse("users.list", Slice(remaining, 1), uuid))
      [] subcommand = "get" ->
           IF Falsy(At(remaining, 2)) THEN Throw(Err("Error", "", "Missing user ID"))
           ELSE Plan("getUser", remaining[2], NoScan)
      [] OTHER ->
           IF ~StartsWithDash(subcommand) THEN Plan("getUser", subcommand, NoScan)
           ELSE Throw(Err("Error", "", "Unknown subcommand"))

organizationCommand(remaining, uuid) == Plan("getOrganization", Undefined, NoScan)

cardsCommand(remaining, uuid) ==
    LET subcommand == OrList(remaining) IN
    IF subcommand = "get"
    THEN IF Falsy(At(remaining, 2)) THEN Throw(Err("Error", "", "Usage: brex cards get <card-id>"))
         ELSE Plan("getCard", remaining[2], NoScan)
    ELSE IF subcommand # "list" /\ ~StartsWithDash(subcommand)
    THEN Plan("getCard", subcommand, NoScan)
    ELSE Plan("listCards", Undefined,
              Parse("cards.list",
                    IF subcommand = "list" THEN Slice(remaining, 1) ELSE remaining, uuid))

eventsCommand(remaining, uuid) ==
    LET subcommand == OrList(remaining) IN
    IF subcommand = "list"
    THEN Plan("listEvents", Undefined, Parse("events.list", Slice(remaining, 1), uuid))
    ELSE IF subcommand = "get"
    THEN IF Falsy(At(remaining, 2)) THEN Throw(Err("Error", "", "Missing event ID"))
         ELSE Plan("getEvent", remaining[2], NoScan)
    ELSE IF ~StartsWithDash(subcommand) THEN Plan("getEvent", subcommand, NoScan)
    ELSE Throw(Err("Error", "", "Unknown subcommand"))

webhooksCommand(remaining, uuid) ==
    LET subcommand == OrList(remaining) IN
    CASE subcommand = "list" ->
           Plan("listWebhooks", Undefined, Parse("webhooks.list", Slice(remaining, 1), uuid))
      [] subcommand = "get" ->
           IF Falsy(At(remaining, 2)) THEN Throw(Err("Error", "", "Missing webhook ID"))
           ELSE Plan("getWebhook", remaining[2], NoScan)
      [] subcommand = "create" ->
           Plan("createWebhook", Undefined, Parse("webhooks.create", Slice(remaining, 1), uuid))
      [] subcommand = "update" ->
           IF Falsy(At(remaining, 2)) THEN Throw(Err("Error", "", "Missing webhook ID"))
           ELSE Plan("updateWebhook", remaining[2],
                     Parse("webhooks.update", Slice(remaining, 2), uuid))
      [] subcommand = "delete" ->
           IF Falsy(At(remaining, 2)) THEN Throw(Err("Error", "", "Missing webhook ID"))
           ELSE Plan("deleteWebhook", remaining[2], NoScan)
      [] subcommand = "verify" -> Throw(Err("Error", "", "verify is not available"))
      [] OTHER -> Throw(Err("Error", "", "Unknown subcommand"))

recipientsCommand(remaining, uuid) ==
    LET subcommand == OrList(remaining) IN
    CASE subcommand = "list" ->
           Plan("listVendors", Undefined, Parse("recipients.list", Slice(remaining, 1), uuid))
      [] subcommand = "get" ->
           IF Falsy(At(remaining, 2)) THEN Throw(Err("Error", "", "Missing vendor ID"))
           ELSE Plan("getVendor", remaining[2], NoScan)
      [] subcommand = "create" ->
           Plan("createVendor", Undefined, Parse("recipients.create", Slice(remaining, 1), uuid))
      [] subcommand = "delete" ->
           IF Falsy(At(remaining, 2)) THEN Throw(Err("Error", "", "Missing vendor ID"))
           ELSE Plan("deleteVendor", remaining[2], NoScan)
      [] OTHER ->
           IF StartsWithDash(subcommand)
           THEN Plan("listVendors", Undefined, Parse("recipients.list", remaining, uuid))
           ELSE Throw(Err("Error", "", "Unknown subcommand"))

transferCommand(remaining, uuid) ==
    LET subcommand == At(remaining, 1) IN
    IF subcommand = "get"
    THEN IF Falsy(At(remaining, 2))
         THEN Throw(Err("Error", "", "Usage: brex transfer get <transfer-id>"))
         ELSE Plan("getTransfer", remaining[2], NoScan)
    ELSE IF subcommand = "list" \/ Falsy(subcommand)
    THEN Plan("listTransfers", Undefined,
              Parse("transfer.list",
                    Slice(remaining, IF subcommand = "list" THEN 1 ELSE 0), uuid))
    ELSE IF subcommand = "create"
    THEN Plan("createTransfer", Undefined, Parse("transfer.create", Slice(remaining, 1), uuid))
    ELSE IF StartsWithDashDash(subcommand)
    THEN Plan("createTransfer", Undefined, Parse("transfer.create", remaining, uuid))
    ELSE Throw(Err("Error", "", "Unknown subcommand"))

WithoutAccountId(scan) ==
    IF scan.err # NoError \/ scan.opts.type = "card"
    THEN Plan("listTransactions", "primary", scan)
    ELSE [Throw(Err("Error", "", "Missing account ID")) EXCEPT !.scan = scan]

transactionsCommand(remaining, uuid) ==
    IF Len(remaining) = 0 \/ (remaining[1] # "send" /\ StartsWithDashDash(remaining[1]))
    THEN WithoutAccountId(Parse("transactions.list", remaining, uuid))
    ELSE IF remaining[1] = "send"
    THEN Throw(Err("Error", "", "Use brex transfer instead"))
    ELSE Plan("listTransactions", remaining[1],
              Parse("transactions.list", Slice(remaining, 1), uuid))

statementsCommand(remaining, uuid) ==
    LET firstArg == OrList(remaining) IN
    IF firstArg = "get"
    THEN IF Falsy(At(remaining, 2))
         THEN Throw(Err("Error", "", "Usage: brex statements get <statement-id>"))
         ELSE Plan("getStatement", remaining[2],
                   Parse("statements.shared", Slice(remaining, 2), uuid))
    ELSE Plan("listStatements", Undefined,
              Parse("statements.list",
                    Slice(remaining, IF firstArg = "list" THEN 1 ELSE 0), uuid))

categoriesCommand(remaining, uuid) ==
    Throw(Err("Error", "", "no direct transaction categories endpoint"))

versionCommand(remaining, uuid) == Plan("version", Undefined, NoScan)

Commands ==
    { "accounts", "users", "organization", "cards", "events", "webhooks",
      "recipients", "transfer", "transactions", "statements", "categories", "version" }

\* command.run(remaining, context) up to the handler it calls.
RunOf(c, remaining, uuid) ==
    CASE c = "accounts" -> accountsCommand(remaining, uuid)
      [] c = "users" -> usersCommand(remaining, uuid)
      [] c = "organization" -> organizationCommand(remaining, uuid)
      [] c = "cards" -> cardsCommand(remaining, uuid)
      [] c = "events" -> eventsCommand(remaining, uuid)
      [] c = "webhooks" -> webhooksCommand(remaining, uuid)
      [] c = "recipients" -> recipientsCommand(remaining, uuid)
      [] c = "transfer" -> transferCommand(remaining, uuid)
      [] c = "transactions" -> transactionsCommand(remaining, uuid)
      [] c = "statements" -> statementsCommand(remaining, uuid)
      [] c = "categories" -> categoriesCommand(remaining, uuid)
      [] OTHER -> versionCommand(remaining, uuid)

Routed(r, format) ==
    [err |-> r.err, fn |-> IF r.err = NoError THEN r.fn ELSE "", id |-> r.id,
     scan |-> r.scan, format |-> format]

\* const { format, args: remaining } = parseOutputFlag(args), then the above.
Route(c, arglist, uuid) ==
    Routed(RunOf(c, parseOutputFlag(arglist).args, uuid), parseOutputFlag(arglist).format)

\* ------------------------------------------------------- HTTP and JSON values

\* A decoded JSON value as the handlers read it: an object with the fields
\* they look at (absent fields are Undefined, an absent list is empty), null,
\* a number, or JavaScript's undefined.
Obj(items, next_cursor, id, error, message) ==
    [t |-> "obj", items |-> items, next_cursor |-> next_cursor, id |-> id,
     error |-> error, message |-> message, url |-> Undefined, event_types |-> <<>>]

Scalar(t) == [Obj(<<>>, Undefined, Undefined, Undefined, Undefined) EXCEPT !.t = t]

JUndefined == Scalar("undefined")
JNull == Scalar("null")
JNum == Scalar("num")

\* The item lists a page carries: none, one item, two in either order.
ItemLists == { <<>>, <<"x">>, <<"y">>, <<"x", "y">>, <<"y", "x">> }

\* The objects a list endpoint answers with, and those an entity endpoint
\* answers with (the second has none of the fields the handler reads).
ListPayloads ==
    { Obj(items, c, Undefined, Undefined, Undefined) : items \in ItemLists, c \in {Undefined, "n1"} }

EntityPayloads ==
    { Obj(<<>>, Undefined, id, Undefined, Undefined) : id \in {"e1", Undefined} }

\* The webhooks an endpoint answers with: with or without an id, a url and
\* event types.
WebhookPayloads ==
    { [Obj(<<>>, Undefined, id, Undefined, Undefined) EXCEPT !.url = url, !.event_types = ev] :
        id \in {"e1", Undefined}, url \in {"https://old", Undefined},
        ev \in {<<>>, <<"ev0">>} }

WebhookFns == {"getWebhook", "createWebhook", "updateWebhook"}

ErrorPayloads == { Obj(<<>>, Undefined, Undefined, "NOT_FOUND", "no such resource") }

\* A response: its status and its body text (empty, only white space, text
\* that is not JSON, or the JSON text of a value); status 0 with kind
\* "neterr" is a fetch() that rejected.
Response(status, kind, json) == [status |-> status, kind |-> kind, json |-> json]

NoResponse == Response(0, "none", JUndefined)

NetworkError == Response(0, "neterr", JUndefined)

OkStatuses == {200, 204}

ErrorStatuses == {404, 500}

ListFns ==
    { "listAccounts", "listUsers", "listCards", "listEvents", "listWebhooks",
      "listVendors", "listTransfers", "listTransactions", "listStatements" }

\* What the server may answer a handler's request with.
Responses(fn) ==
    LET payloads == IF fn \in ListFns THEN ListPayloads
                    ELSE IF fn \in WebhookFns THEN WebhookPayloads ELSE EntityPayloads IN
    {NetworkError}
      \cup { Response(st, "garbage", JUndefined) : st \in ErrorStatuses }
      \cup { Response(st, "json", j) : st \in ErrorStatuses, j \in {JNull, JNum} \cup ErrorPayloads }
      \cup { Response(200, k, JUndefined) : k \in {"empty", "blank", "garbage"} }
      \cup { Response(200, "json", j) : j \in {JNull} \cup payloads }
      \cup { Response(204, "empty", JUndefined) }
      \cup { Response(204, "json", Obj(<<>>, Undefined, "e1", Undefined, Undefined)) }

\* response.ok
Ok(status) == status \in 200..299

\* `HTTP ${response.status}` and response.statusText
HttpCode(status) ==
    CASE status = 404 -> "HTTP 404" [] status = 500 -> "HTTP 500"
      [] status = 200 -> "HTTP 200" [] status = 204 -> "HTTP 204" [] OTHER -> "HTTP"

StatusText(status) ==
    CASE status = 404 -> "Not Found" [] status = 500 -> "Internal Server Error"
      [] status = 200 -> "OK" [] status = 204 -> "No Content" [] OTHER -> ""

\* new BrexApiError(status, body): the message is body.message ?? body.error
\* ?? `HTTP ${status}`.
BrexApiError(status, body) ==
    [name |-> "BrexApiError", flag |-> "",
     text |-> IF body.message # Undefined THEN body.message
              ELSE IF body.error # Undefined THEN body.error ELSE HttpCode(status),
     status |-> status, body |-> body]

\* A made-up body whose error code leaves the status out.
SyntheticBodyWithoutStatus(status) ==
    Obj(<<>>, Undefined, Undefined, "HTTP error", StatusText(status))

\* The body the client makes up when the error response holds no JSON object.
SyntheticBody(status) ==
    Obj(<<>>, Undefined, Undefined, HttpCode(status), StatusText(status))

\* The body text compared with "" as it came, white space and all.
EmptyUntrimmed(kind) == kind = "empty"

\* (await response.text()).trim() is empty.
TrimsToEmpty(kind) == kind \in {"empty", "blank"}

\* What a call of the client's fetch settles with once the response is in.
Resolved(value) == [ok |-> TRUE, value |-> value, err |-> NoError]

Rejected(e) == [ok |-> FALSE, value |-> JUndefined, err |-> e]

ClientOutcome(resp) ==
    IF resp.kind = "neterr" THEN Rejected(Err("TypeError", "", "fetch failed"))
    ELSE IF ~Ok(resp.status)
    THEN Rejected(BrexApiError(resp.status,
                    IF resp.kind = "json" /\ resp.json.t = "obj" THEN resp.json
                    ELSE SyntheticBody(resp.status)))
    ELSE IF resp.status = 204 THEN Resolved(JUndefined)
    ELSE IF TrimsToEmpty(resp.kind) THEN Resolved(JUndefined)
    ELSE IF resp.kind = "json" THEN Resolved(resp.json)
    ELSE Rejected(Err("SyntaxError", "", "Unexpected token in JSON"))

\* ---------------------------------------------------------------- requests

NoBody == [absent |-> "true"]

Request(method, path, query, key, body) ==
    [method |-> method, path |-> path, query |-> query, key |-> key, body |-> body]

Get(path, query) == Request("GET", path, query, Undefined, NoBody)

\* The characters of a token. A token of letters, digits and hyphens, which
\* no encoder touches, is one run; the cursor of the vocabulary that holds
\* reserved characters is spelled out.
ReservedCursor == "a+b %20&=c"

Chars(tok) ==
    IF tok = ReservedCursor
    THEN <<"a", "+", "b", " ", "%", "2", "0", "&", "=", "c">>
    ELSE <<tok>>

\* The percent escape of a reserved character.
PercentEscape ==
    (" " :> <<"%", "2", "0">>) @@ ("+" :> <<"%", "2", "B">>) @@
    ("%" :> <<"%", "2", "5">>) @@ ("&" :> <<"%", "2", "6">>) @@
    ("=" :> <<"%", "3", "D">>)

\* An encoder that passes every character through as it is.
EscapeNothing(ch) == <<ch>>

\* encodeURIComponent on one character.
UriEscape(ch) == IF ch \in DOMAIN PercentEscape THEN PercentEscape[ch] ELSE <<ch>>

\* The application/x-www-form-urlencoded serializer on one character: a
\* space becomes "+", the other reserved characters their percent escape.
FormEscape(ch) ==
    IF ch = " " THEN <<"+">>
    ELSE IF ch \in DOMAIN PercentEscape THEN PercentEscape[ch] ELSE <<ch>>

\* encodeURIComponent(string)
RECURSIVE encodeURIComponent(_)
encodeURIComponent(chars) ==
    IF chars = <<>> THEN <<>>
    ELSE UriEscape(Head(chars)) \o encodeURIComponent(Tail(chars))

RECURSIVE FormSerialize(_)
FormSerialize(chars) ==
    IF chars = <<>> THEN <<>>
    ELSE FormEscape(Head(chars)) \o FormSerialize(Tail(chars))

\* params.toString(): name=value of each pair, joined with "&".
RECURSIVE toString(_)
toString(pairs) ==
    IF pairs = <<>> THEN <<>>
    ELSE FormSerialize(Chars(pairs[1][1])) \o <<"=">> \o FormSerialize(Chars(pairs[1][2]))
         \o (IF Len(pairs) > 1 THEN <<"&">> ELSE <<>>) \o toString(Tail(pairs))

\* new URLSearchParams() with params.set(name, value) for each option that is
\* set, in the order the handler sets them; then params.toString(), the text
\* after the "?" of the path (none when the text is empty).
SearchParams(pairs) == toString(SelectSeq(pairs, LAMBDA p : ~Falsy(p[2])))

Param(name, value) == <<name, value>>

\* withCursor(path, cursor): `${path}?cursor=${encodeURIComponent(cursor)}`
withCursor(path, cursor) ==
    Get(path, IF Falsy(cursor) THEN <<>>
              ELSE <<"cursor", "=">> \o encodeURIComponent(Chars(cursor)))

\* value.split(",").map(trim).filter(Boolean) on the tokens of the vocabulary.
SplitEvents(tok) == IF Falsy(tok) \/ tok = "," THEN <<>> ELSE <<tok>>

\* A path that is the primary card account's whatever the scope.
StatementsPathOfPrimary(o) == <<"/v2/accounts/card/primary/statements">>

\* The statements of the scope: of the primary card account, or of the
\* additional card account named by --account-id.
StatementsPath(o) ==
    IF o.scope = "primary" THEN <<"/v2/accounts/card/primary/statements">>
    ELSE <<"/v2/accounts/card/additional/", o.accountId, "/statements">>

\* The requests a handler makes before its first response: the arguments of
\* its first client.fetch call (of both, for the combined account listing).
FirstRequests(fn, id, o, uuid) ==
    CASE fn = "listAccounts" ->
           IF o.type = "cash" THEN << withCursor(<<"/v2/accounts/cash">>, o.cursor) >>
           ELSE IF o.type = "card" THEN << withCursor(<<"/v2/accounts/card">>, o.cursor) >>
           ELSE << withCursor(<<"/v2/accounts/cash">>, o.cursor),
                   withCursor(<<"/v2/accounts/card">>, o.cursor) >>
      [] fn = "getAccount" ->
           IF o.type = "card" THEN << Get(<<"/v2/accounts/card/", id>>, <<>>) >>
           ELSE << Get(<<"/v2/accounts/cash/", id>>, <<>>) >>
      [] fn = "listUsers" ->
           << Get(<<"/v2/users">>,
                  SearchParams(<< Param("cursor", o.cursor), Param("email", o.email) >>)) >>
      [] fn = "getUser" -> << Get(<<"/v2/users/", id>>, <<>>) >>
      [] fn = "getOrganization" -> << Get(<<"/v2/company">>, <<>>) >>
      [] fn = "listCards" ->
           << Get(<<"/v2/cards">>,
                  SearchParams(<< Param("user_id", o.userId), Param("cursor", o.cursor),
                                  Param("limit", o.limit) >>)) >>
      [] fn = "getCard" -> << Get(<<"/v2/cards/", id>>, <<>>) >>
      [] fn = "listEvents" ->
           << Get(<<"/v1/events">>,
                  SearchParams(<< Param("event_type", o.eventType),
                                  Param("after_date", o.afterDate),
                                  Param("before_date", o.beforeDate),
                                  Param("cursor", o.cursor), Param("limit", o.limit) >>)) >>
      [] fn = "getEvent" -> << Get(<<"/v1/events/", id>>, <<>>) >>
      [] fn = "listWebhooks" ->
           << Get(<<"/v1/webhooks">>,
                  SearchParams(<< Param("cursor", o.cursor), Param("limit", o.limit) >>)) >>
      [] fn \in {"getWebhook", "updateWebhook"} -> << Get(<<"/v1/webhooks/", id>>, <<>>) >>
      [] fn = "createWebhook" ->
           << Request("POST", <<"/v1/webhooks">>, <<>>, uuid,
                      [url |-> o.url,
                       event_types |-> IF Len(SplitEvents(o.events)) > 0
                                       THEN SplitEvents(o.events) ELSE <<>>]) >>
      [] fn = "deleteWebhook" ->
           << Request("DELETE", <<"/v1/webhooks/", id>>, <<>>, Undefined, NoBody) >>
      [] fn = "listVendors" ->
           << Get(<<"/v1/vendors">>,
                  SearchParams(<< Param("limit", o.limit), Param("cursor", o.cursor),
                                  Param("name", o.name) >>)) >>
      [] fn = "getVendor" -> << Get(<<"/v1/vendors/", id>>, <<>>) >>
      [] fn = "createVendor" ->
           << Request("POST", <<"/v1/vendors">>, <<>>, o.idempotencyKey,
                      [company_name |-> o.companyName,
                       email |-> IF Falsy(o.email) THEN Undefined ELSE o.email,
                       phone |-> IF Falsy(o.phone) THEN Undefined ELSE o.phone,
                       ach |-> IF \A k \in {"routingNumber", "accountNumber", "accountType",
                                            "accountClass"} : ~Falsy(o[k])
                               THEN <<o.routingNumber, o.accountNumber, o.accountType,
                                      o.accountClass>>
                               ELSE <<>>]) >>
      [] fn = "deleteVendor" ->
           << Request("DELETE", <<"/v1/vendors/", id>>, <<>>, Undefined, NoBody) >>
      [] fn = "getTransfer" -> << Get(<<"/v1/transfers/", id>>, <<>>) >>
      [] fn = "listTransfers" ->
           << Get(<<"/v1/transfers">>,
                  SearchParams(<< Param("cursor", o.cursor), Param("limit", o.limit) >>)) >>
      [] fn = "createTransfer" ->
           << Request("POST", <<"/v1/transfers">>, <<>>, o.idempotencyKey,
                      [originating_account |-> o.fromAccountId,
                       counterparty_type |-> o.counterpartyType,
                       counterparty_id |-> IF o.counterpartyType = "BOOK_TRANSFER"
                                           THEN o.toDepositAccountId
                                           ELSE o.toPaymentInstrumentId,
                       amount |-> o.amountCents, currency |-> o.currency,
                       description |-> o.description, external_memo |-> o.externalMemo,
                       approval_type |-> o.approvalType]) >>
      [] fn = "listTransactions" ->
           << Get(IF o.type = "cash" THEN <<"/v2/transactions/cash/", id>>
                  ELSE <<"/v2/transactions/card/primary">>,
                  SearchParams(<< Param("limit", o.limit), Param("cursor", o.cursor),
                                  Param("posted_at_start", o.postedAtStart) >>)) >>
      [] fn = "listStatements" ->
           << withCursor(StatementsPath(o), o.cursor) >>
      [] fn = "getStatement" -> << Get(StatementsPath(o) \o <<"/", id>>, <<>>) >>
      [] OTHER -> <<>>

\* ------------------------------------------------------------------ output

\* What a handler writes to standard output, line by line.
Text(text) == [k |-> "text", text |-> text]

Hint(prefix, cursor) == [k |-> "hint", prefix |-> prefix, cursor |-> cursor]

Deleted(what, id) == [k |-> "deleted", what |-> what, id |-> id]

Row(id, type) == [k |-> "row", id |-> id, type |-> type]

Field(name, value) == [k |-> "field", name |-> name, value |-> value]

\* printJson(value): one JSON document.
printJson(doc) == << [k |-> "json", doc |-> doc] >>

\* printTable(rows, columns): the header line, then one line for each row.
printTable(rows) == << [k |-> "header"] >> \o rows

\* A cursor printed as it is, absent when the response has none.
OrAbsent(v) == v

\* response.next_cursor ?? null
OrNull(v) == IF v = Undefined THEN "<null>" ELSE v

Page(items, next_cursor) == [items |-> items, nextCursor |-> OrNull(next_cursor)]

Wrote(out) == [out |-> out, err |-> NoError]

Threw(out, e) == [out |-> out, err |-> e]

PropertyOfNothing == Err("TypeError", "", "Cannot read properties of undefined")

\* Reading a property of the value throws.
Nullish(v) == v.t \in {"undefined", "null"}

\* An object that holds the entity the handler looks for.
Holds(v) == v.t = "obj" /\ v.id # Undefined

EmptyText(fn) ==
    CASE fn = "listUsers" -> "No users found."
      [] fn = "listCards" -> "No cards found."
      [] fn = "listEvents" -> "No events found."
      [] fn = "listWebhooks" -> "No webhooks configured."
      [] fn = "listVendors" -> "No vendors found."
      [] fn = "listTransfers" -> "No transfers found."
      [] fn = "listTransactions" -> "No transactions found."
      [] fn = "listStatements" -> "No statements found."
      [] OTHER -> "No accounts found."

CursorHint(fn, cursor) ==
    IF fn \in {"listCards", "listEvents", "listWebhooks", "listAccounts"}
    THEN Hint("Next cursor: ", cursor)
    ELSE Hint("More results available. Run with: --cursor ", cursor)

Title(fn) ==
    CASE fn = "getUser" -> "User Details"
      [] fn = "getOrganization" -> "Organization Details"
      [] fn = "getCard" -> "Card Details"
      [] fn = "getEvent" -> "Event Details"
      [] fn = "getWebhook" -> "Webhook Details"
      [] fn = "createWebhook" -> "Webhook Created"
      [] fn = "updateWebhook" -> "Webhook Updated"
      [] fn = "getVendor" -> "Vendor Details"
      [] fn = "createVendor" -> "Vendor Created"
      [] fn = "getTransfer" -> "Transfer Details"
      [] fn = "createTransfer" -> "Transfer Created"
      [] fn = "getStatement" -> "Statement Details"
      [] OTHER -> "Account Details"

Details(fn, v) == << Text(Title(fn)), Text("-----"), Field("ID", v.id) >>

\* A property of a list envelope: absent, an array of items, or a value that
\* is no array.
Absent == [t |-> "undefined", items |-> <<>>]
Array(items) == [t |-> "array", items |-> items]
NotArray == [t |-> "string", items |-> <<>>]

\* The properties extractItems is asked for.
EnvelopeKeys == {"items", "cash_accounts", "card_accounts", "accounts"}

CashKeys == <<"items", "cash_accounts", "accounts">>
CardKeys == <<"items", "card_accounts", "accounts">>

\* The page a list endpoint answered with, as an envelope: its items.
AccountsPage(v) == [k \in EnvelopeKeys |-> IF k = "items" THEN Array(v.items) ELSE Absent]

\* extractItems(response, keys): the value of the first of the keys that
\* holds an array, the empty array when none does.
RECURSIVE extractItems(_, _)
extractItems(response, keys) ==
    IF keys = <<>> THEN <<>>
    ELSE IF response[Head(keys)].t = "array" THEN response[Head(keys)].items
    ELSE extractItems(response, Tail(keys))

\* toAccountRow(account, type) for each account of a page.
AccountRows(items, type) == [i \in 1..Len(items) |-> Row(items[i], type)]

\* printAccountsTable(rows)
printAccountsTable(rows) ==
    IF Len(rows) = 0 THEN << Text("No accounts found.") >> ELSE printTable(rows)

\* A list handler from its response on.
RenderList(fn, format, v) ==
    IF Nullish(v) THEN Threw(<<>>, PropertyOfNothing)
    ELSE IF format = "json" THEN Wrote(printJson(Page(v.items, v.next_cursor)))
    ELSE IF Len(v.items) = 0 THEN Wrote(<< Text(EmptyText(fn)) >>)
    ELSE Wrote(printTable([i \in 1..Len(v.items) |-> Row(v.items[i], "")])
               \o IF Falsy(v.next_cursor) THEN <<>> ELSE << CursorHint(fn, v.next_cursor) >>)

\* The keys listAccounts looks for the accounts of a type under.
KeysOf(type) == IF type = "card" THEN CardKeys ELSE CashKeys

\* listAccounts with --type cash or --type card, from its response on.
RenderAccountsPage(type, format, v) ==
    IF Nullish(v) THEN Threw(<<>>, PropertyOfNothing)
    ELSE IF format = "json"
    THEN Wrote(printJson(Page(extractItems(AccountsPage(v), KeysOf(type)), v.next_cursor)))
    ELSE Wrote(printAccountsTable(AccountRows(extractItems(AccountsPage(v), KeysOf(type)),
                                              type))
               \o IF Falsy(v.next_cursor) THEN <<>>
                  ELSE << CursorHint("listAccounts", v.next_cursor) >>)

\* renderAccount(account, type, format)
renderAccount(v, type, format) ==
    IF format = "json" THEN Wrote(printJson(v))
    ELSE IF v.t # "obj" THEN Threw(<<>>, Err("TypeError", "", "Cannot use 'in' operator"))
    ELSE Wrote(Details("getAccount", v) \o << Field("Type", type) >>)

\* A handler from the response of its last request on: what it writes and
\* what it throws.
Render(fn, format, v, id, o) ==
    CASE fn \in ListFns \ {"listAccounts"} -> RenderList(fn, format, v)
      [] fn = "listAccounts" -> RenderAccountsPage(o.type, format, v)
      [] fn \in {"getUser", "getOrganization", "getCard", "getEvent", "getWebhook",
                 "createWebhook", "updateWebhook"} ->
           IF Nullish(v) THEN Threw(<<>>, PropertyOfNothing)
           ELSE IF format = "json" THEN Wrote(printJson(v))
           ELSE Wrote(Details(fn, v))
      [] fn \in {"getVendor", "createVendor"} ->
           IF format = "json" THEN Wrote(printJson(v))
           ELSE IF Nullish(v)
           THEN Threw(<< Text(Title(fn)), Text("-----") >>, PropertyOfNothing)
           ELSE Wrote(Details(fn, v))
      [] fn \in {"getTransfer", "createTransfer"} ->
           IF format = "json" THEN Wrote(printJson(v))
           ELSE IF ~Holds(v) THEN Threw(<<>>, PropertyOfNothing)
           ELSE Wrote(Details(fn, v))
      [] fn = "getStatement" ->
           IF Nullish(v) THEN Threw(<<>>, PropertyOfNothing)
           ELSE IF ~Holds(v)
           THEN Threw(<<>>, Err("Error", "", "Brex API returned an empty statement payload."))
           ELSE IF format = "json" THEN Wrote(printJson(v))
           ELSE Wrote(Details(fn, v))
      [] fn = "getAccount" -> renderAccount(v, o.type, format)
      [] fn = "deleteWebhook" -> Wrote(<< Deleted("Webhook", id) >>)
      [] fn = "deleteVendor" -> Wrote(<< Deleted("Vendor", id) >>)
      [] OTHER -> Wrote(<<>>)

\* ------------------------------------------------------- the client's fetch

\* A check that takes only the absent token for missing, not the empty one.
TokenIsNull(tok) == tok = "<null>"

\* if (!token) in the client's fetch.
TokenMissing(tok) == Falsy(tok)

NotAuthenticated == Err("Error", "", "Not authenticated. Run 'brex login' first.")

\* One HTTP exchange of a call: when the request went out, when its response
\* came in (0 while it is in flight), and the response.
Exchange(issuedAt) == [issuedAt |-> issuedAt, doneAt |-> 0, resp |-> NoResponse]

\* client.fetch(path, init) up to its first await: without a token the call
\* is rejected on the spot, with one the request goes out.
Fetch(req, tok, t) ==
    IF TokenMissing(tok)
    THEN [req |-> req, state |-> "rejected", value |-> JUndefined,
          err |-> NotAuthenticated, exchanges |-> <<>>]
    ELSE [req |-> req, state |-> "pending", value |-> JUndefined,
          err |-> NoError, exchanges |-> << Exchange(t) >>]

\* A client that sends the request once more when the exchange failed.
ExchangedWithRetry(call, resp, t) ==
    LET first == [call.exchanges EXCEPT ![Len(call.exchanges)] =
                      [@ EXCEPT !.doneAt = t, !.resp = resp]]
    IN IF resp.kind = "neterr" \/ ~Ok(resp.status) \/ resp.kind = "garbage"
       THEN Append(first, [issuedAt |-> t, doneAt |-> t, resp |-> resp])
       ELSE first

\* The exchanges a call has made once its response is in.
Exchanged(call, resp, t) ==
    [call.exchanges EXCEPT ![Len(call.exchanges)] = [@ EXCEPT !.doneAt = t, !.resp = resp]]

Settled(call, resp, t, outcome) ==
    [call EXCEPT !.state = IF outcome.ok THEN "resolved" ELSE "rejected",
                 !.value = outcome.value, !.err = outcome.err,
                 !.exchanges = Exchanged(call, resp, t)]

\* client.fetch from the response on: the call settles with the outcome.
Settle(call, resp, t) == Settled(call, resp, t, ClientOutcome(resp))

\* ------------------------------------------------------------ the registry

\* A descriptor whose alias is an alias of another command too.
AliasesSharingAcc(c) ==
    CASE c = "accounts" -> <<"account", "acc">>
      [] c = "cards" -> <<"card", "acc">>
      [] OTHER -> <<>>

\* The aliases of each command descriptor, in the order of its array; the
\* transfer descriptor has none.
Aliases(c) ==
    CASE c = "accounts" -> <<"account", "acc">>
      [] c = "users" -> <<"user">>
      [] c = "organization" -> <<"org">>
      [] c = "cards" -> <<"card">>
      [] c = "events" -> <<"event">>
      [] c = "webhooks" -> <<"webhook", "wh">>
      [] c = "recipients" -> <<"recipient", "recip">>
      [] c = "transactions" -> <<"tx", "txn">>
      [] c = "statements" -> <<"statement">>
      [] c = "categories" -> <<"category", "cat">>
      [] c = "version" -> <<"v">>
      [] OTHER -> <<>>

\* The strings a descriptor answers to: its name, then its aliases.
Words(c) == <<c>> \o Aliases(c)

\* The registry: the word-to-command pairs registered, the descriptors not
\* yet registered, the words a registration was turned down for, and the
\* word the invocation was dispatched on.
Router(registry, left, raised, word) ==
    [registry |-> registry, left |-> left, raised |-> raised, word |-> word]

\* The words of a descriptor that register() turns down: those registered
\* already and those the descriptor itself lists twice.
Duplicates(registry, c) ==
    { Words(c)[i] : i \in { k \in DOMAIN Words(c) :
                               \/ \E p \in registry : p[1] = Words(c)[k]
                               \/ \E j \in 1..(k - 1) : Words(c)[j] = Words(c)[k] } }

\* register(descriptor): DuplicateCommandError when its name or an alias
\* exists already, else each of its words maps to it.
register(r, c) ==
    IF Duplicates(r.registry, c) # {}
    THEN [r EXCEPT !.left = @ \ {c}, !.raised = @ \cup Duplicates(r.registry, c)]
    ELSE [r EXCEPT !.left = @ \ {c},
                   !.registry = @ \cup { <<Words(c)[i], c>> : i \in DOMAIN Words(c) }]

\* resolve(word): the commands the word maps to, by exact match.
resolve(r, word) == { p[2] : p \in { q \in r.registry : q[1] = word } }

\* The registry an invocation finds: every descriptor registered.
Registered12 ==
    Router(UNION { { <<Words(c)[i], c>> : i \in DOMAIN Words(c) } : c \in Commands },
           {}, {}, "")

\* ------------------------------------------------------------ an invocation

VARIABLES
    token,      \* getToken(): the stored bearer token, "<null>" when none
    cmd,        \* the command the invocation names
    args,       \* the arguments after the command name
    pc,         \* "start", "await", "done" or "failed"
    frame,      \* the handler that runs: its name, output format, id, options
    calls,      \* the calls of client.fetch made so far
    stdout,     \* the lines written so far
    err,        \* the error the command failed with
    now,        \* the step count
    drawn,      \* how many values crypto.randomUUID() has given out so far
    generated,  \* the idempotency keys generated so far, oldest first
    router,     \* the command registry: the words registered, the descriptors left
    extraction  \* extractItems applied on its own: the response, the keys, the result

vars ==
    <<token, cmd, args, pc, frame, calls, stdout, err, now, drawn, generated, router,
      extraction>>

Tokens == {"<null>", "", "tok"}

\* crypto.randomUUID(): the value of the call after n earlier calls. Each
\* call gives a value no earlier call gave.
randomUUID(n) ==
    CASE n = 0 -> "uuid-1" [] n = 1 -> "uuid-2" [] n = 2 -> "uuid-3" [] OTHER -> "uuid-4"

Uuids == { randomUUID(n) : n \in 0..3 }

\* One key kept for every request that is given none.
FixedKey(n) == "uuid-1"

\* The key a create command makes up: a new crypto.randomUUID() each time.
GeneratedKey(n) == randomUUID(n)

\* The tokens an argument list of a command is drawn from.
Vocab(c) ==
    CASE c = "accounts" -> {"list", "get", "a1", "--type", "cash", "all", "--cursor", "--json"}
      [] c = "users" ->
           {"list", "get", "u1", "--cursor", "--json", "--bogus", "", ReservedCursor}
      [] c = "organization" -> {"--json", "--bogus", "x1"}
      [] c = "cards" -> {"get", "c1", "--limit", "5", "0", "--user-id"}
      [] c = "events" -> {"list", "e1", "--event-type", "--limit", "5x", "-x"}
      [] c = "webhooks" ->
           {"get", "create", "update", "delete", "w1", "--url", "--status",
            "--idempotency-key"}
      [] c = "recipients" ->
           {"get", "create", "delete", "v1", "--name", "--account-type", "checking"}
      [] c = "transfer" ->
           {"get", "list", "t1", "--approval", "manual", "--json", "--idempotency-key"}
      [] c = "transactions" -> {"send", "a1", "--type", "card", "--start", "--json"}
      [] c = "statements" ->
           {"get", "list", "s1", "--scope", "additional", "--account-id", "--cursor",
            ReservedCursor}
      [] c = "categories" -> {"list", "--json"}
      [] OTHER -> {"--json", "x1"}

\* The beginnings an argument list may have: none, or for a transfer the
\* create subcommand with every option it requires.
Stems(c) ==
    IF c = "transfer"
    THEN { <<>>,
           <<"create", "--from", "a1", "--to", "pi1", "--amount", "5",
             "--description", "d1", "--memo", "m1">> }
    ELSE { <<>> }

\* Whole command lines that are longer than the drawn ones.
CommandLines(c) ==
    CASE c = "webhooks" ->
           { <<"update", "w1", "--status", "ACTIVE">>,
             <<"update", "w1", "--url", "https://new">>,
             <<"update", "w1", "--events", "ev1">>,
             <<"update", "w1", "--events", ",">>,
             <<"update", "w1", "--url", "https://new", "--events", "ev1">>,
             <<"create", "--url", "https://new", "--status", "ACTIVE">>,
             <<"create", "--url", "https://new", "--events", "ev1">>,
             <<"delete", "w1", "--json">> }
      [] c = "accounts" ->
           { <<"get", "a1", "--type", "cash">>,
             <<"get", "a1", "--type", "card">>,
             <<"list", "--type", "card">>,
             <<"list", "--type", "cash", "--cursor", "c1">>,
             <<"list", "--type", "card", "--cursor", "c1">>,
             <<"list", "--type", "all", "--cursor", "c1">>,
             <<"list", "--cursor", "c1", "--json">> }
      [] c = "transfer" ->
           { <<"create", "--from", "a1", "--to-account", "a2", "--amount", "12",
               "--description", "d1", "--memo", "m1">>,
             <<"create", "--from", "a1", "--to", "pi1", "--to-account", "a2", "--amount", "5",
               "--description", "d1", "--memo", "m1">>,
             <<"create", "--from", "a1", "--amount", "5", "--description", "d1",
               "--memo", "m1">>,
             <<"create", "--to", "pi1", "--amount", "5", "--description", "d1",
               "--memo", "m1">>,
             <<"create", "--from", "a1", "--to", "pi1", "--description", "d1",
               "--memo", "m1">>,
             <<"create", "--from", "a1", "--to", "pi1", "--amount", "5", "--memo", "m1">>,
             <<"create", "--from", "a1", "--to", "pi1", "--amount", "5",
               "--description", "d1">>,
             <<"create", "--from", "a1", "--to", "pi1", "--amount", "5",
               "--description", "d1", "--memo", "<91 characters>">>,
             <<"create", "--from", "a1", "--to", "pi1", "--amount", "0",
               "--description", "d1", "--memo", "m1">>,
             <<"create", "--from", "a1", "--to", "pi1", "--amount", "5x",
               "--description", "d1", "--memo", "m1">> }
      [] c = "recipients" ->
           { <<"delete", "v1", "--json">>, <<"get", "v1", "--json">>,
             <<"create", "--name", "v1", "--json">> }
      [] c = "statements" ->
           { <<"--scope", "additional", "--account-id", "acct1">>,
             <<"list", "--account-id", "acct1", "--cursor", "c1">>,
             <<"list", "--scope", "additional", "--account-id", "acct1", "--cursor", "c1">>,
             <<"get", "s1", "--account-id", "acct1">>,
             <<"get", "s1", "--scope", "additional">>,
             <<"get", "s1", "--scope", "additional", "--account-id", "acct1">> }
      [] OTHER -> {}

ArgListsUpTo(c, max) ==
    { stem \o tail : stem \in Stems(c),
                     tail \in UNION { [1..n -> Vocab(c)] : n \in 0..max } }
      \cup CommandLines(c)

ArgLists(c) == ArgListsUpTo(c, MaxArgs)

\* No extraction under way.
NoExtraction == [response |-> [k \in EnvelopeKeys |-> Absent], keys |-> <<>>,
                 done |-> FALSE, result |-> <<>>]

NoFrame == [fn |-> "", format |-> "table", id |-> Undefined, scan |-> NoScan]

Init ==
    /\ token \in Tokens
    /\ cmd \in Commands
    /\ args \in ArgLists(cmd)
    /\ pc = "start"
    /\ frame = NoFrame
    /\ calls = <<>>
    /\ stdout = <<>>
    /\ err = NoError
    /\ now = 0
    /\ drawn = 0
    /\ generated = <<>>
    /\ router = Registered12
    /\ extraction = NoExtraction

\* The command fails: the error propagates out of run().
Fail(e) ==
    /\ pc' = "failed"
    /\ err' = e

\* A handler returns or throws after writing some lines.
Return(r) ==
    /\ stdout' = stdout \o r.out
    /\ IF r.err = NoError
       THEN /\ pc' = "done"
            /\ err' = err
       ELSE Fail(r.err)

\* The awaited call was rejected and nothing catches the error.
Rethrow(e) ==
    /\ Fail(e)
    /\ stdout' = stdout

\* The handler awaits the next response.
Await ==
    /\ pc' = "await"
    /\ UNCHANGED <<stdout, err>>

Combined == frame.fn = "listAccounts" /\ frame.scan.opts.type = "all"

Pending(i) == i \in DOMAIN calls /\ calls[i].state = "pending"

\* The first calls of the handler, as many as it makes before its first await.
Launch(made) ==
    /\ calls' = made
    /\ IF made[1].state = "rejected" THEN Rethrow(made[1].err) ELSE Await

Fetches(reqs, tok, t) == [i \in 1..Len(reqs) |-> Fetch(reqs[i], tok, t)]

\* The invocation calls crypto.randomUUID(): the create parsers of transfer
\* and recipients when no key is given, createWebhook for its header.
Generates(plan) == plan.scan.drew \/ plan.fn = "createWebhook"

Drew(plan, uuid) ==
    IF Generates(plan)
    THEN /\ drawn' = drawn + 1
         /\ generated' = Append(generated, uuid)
    ELSE UNCHANGED <<drawn, generated>>

Start(plan, uuid) ==
    /\ frame' = [fn |-> plan.fn, format |-> plan.format, id |-> plan.id, scan |-> plan.scan]
    /\ Drew(plan, uuid)
    /\ IF plan.err # NoError
       THEN /\ Rethrow(plan.err)
            /\ calls' = calls
       ELSE IF plan.fn = "version"
       THEN /\ Return(Wrote(<< Text("brex-cli v0.1.0") >>))
            /\ calls' = calls
       ELSE Launch(Fetches(FirstRequests(plan.fn, plan.id, plan.scan.opts, uuid),
                           token, now + 1))

\* run(args, context) of the command up to its first await: the routing and
\* option parsing, then the first call of the client's fetch (both calls, for
\* the combined account listing).
Run ==
    /\ pc = "start"
    /\ Start(Route(cmd, args, GeneratedKey(drawn)), GeneratedKey(drawn))
    /\ now' = now + 1
    /\ UNCHANGED <<token, cmd, args, router, extraction>>

\* A handler that goes on waiting after its call was rejected.
ConcludeByWaiting(c, o) ==
    IF c.state = "rejected" THEN Await
    ELSE Return(Render(frame.fn, frame.format, c.value, frame.id, o))

\* The handler's last call has settled: it renders the value or rethrows.
Conclude(c, o) ==
    IF c.state = "rejected" THEN Rethrow(c.err)
    ELSE Return(Render(frame.fn, frame.format, c.value, frame.id, o))

\* A list handler that asks for the next page while the response names one.
ReturnedAfterNextPage(fn, cs) ==
    IF fn \in ListFns /\ cs[1].state = "resolved" /\ cs[1].value.next_cursor # Undefined
    THEN Append(cs, Fetch(cs[1].req, token, now + 1))
    ELSE cs

\* The calls a handler with one request has made when it returns: the one
\* call, its response in. No handler loops over pages.
Returned(fn, cs) == cs

\* A handler with one request gets its response and runs to its end.
Respond ==
    /\ pc = "await"
    /\ frame.fn \notin {"getAccount", "updateWebhook"}
    /\ ~Combined
    /\ Pending(1)
    /\ \E resp \in Responses(frame.fn) :
         /\ calls' = Returned(frame.fn, [calls EXCEPT ![1] = Settle(@, resp, now + 1)])
         /\ Conclude(calls'[1], frame.scan.opts)
    /\ now' = now + 1
    /\ UNCHANGED <<token, cmd, args, frame, drawn, generated, router, extraction>>

\* A join that hands the values over in the order the calls settled.
PromiseAllByArrival(cs) ==
    IF Len(cs) = 2 /\ cs[2].exchanges # <<>> /\ cs[1].exchanges # <<>>
       /\ cs[2].exchanges[1].doneAt < cs[1].exchanges[1].doneAt
    THEN << cs[2].value, cs[1].value >>
    ELSE [i \in 1..Len(cs) |-> cs[i].value]

\* await Promise.all([...]): the values in the order of the promises given.
PromiseAll(cs) == [i \in 1..Len(cs) |-> cs[i].value]

\* listAccounts without --type cash or card, from the two responses on.
MergeAccounts(format, cashResponse, cardResponse) ==
    IF Nullish(cashResponse) \/ Nullish(cardResponse) THEN Threw(<<>>, PropertyOfNothing)
    ELSE IF format = "json"
    THEN Wrote(printJson(
             [cash |-> Page(extractItems(AccountsPage(cashResponse), CashKeys),
                            cashResponse.next_cursor),
              card |-> Page(extractItems(AccountsPage(cardResponse), CardKeys),
                            cardResponse.next_cursor)]))
    ELSE Wrote(printAccountsTable(
                   AccountRows(extractItems(AccountsPage(cashResponse), CashKeys), "cash")
                     \o AccountRows(extractItems(AccountsPage(cardResponse), CardKeys),
                                     "card")))

RenderCombined(format, results) == MergeAccounts(format, results[1], results[2])

\* A join that waits for every call to settle, rejected or not.
JoinedWhenAllSettled(c, cs) ==
    IF \E j \in DOMAIN cs : cs[j].state = "pending" THEN Await
    ELSE IF \E j \in DOMAIN cs : cs[j].state = "rejected" THEN Rethrow(c.err)
    ELSE Return(RenderCombined(frame.format, PromiseAll(cs)))

\* Promise.all rejects with the first rejection and resolves once both calls
\* have resolved.
Joined(c, cs) ==
    IF c.state = "rejected" THEN Rethrow(c.err)
    ELSE IF \E j \in DOMAIN cs : cs[j].state = "pending" THEN Await
    ELSE Return(RenderCombined(frame.format, PromiseAll(cs)))

\* One of the two requests of the combined account listing gets its response.
RespondAll ==
    /\ pc = "await"
    /\ Combined
    /\ \E i \in 1..2 : \E resp \in Responses(frame.fn) :
         /\ Pending(i)
         /\ calls' = [calls EXCEPT ![i] = Settle(@, resp, now + 1)]
         /\ Joined(calls'[i], calls')
    /\ now' = now + 1
    /\ UNCHANGED <<token, cmd, args, frame, drawn, generated, router, extraction>>

\* The response of the request still in flight when Promise.all rejected:
\* its call settles and nothing reads it.
SettleLate ==
    /\ pc = "failed"
    /\ \E i \in DOMAIN calls : \E resp \in Responses(frame.fn) :
         /\ Pending(i)
         /\ calls' = [calls EXCEPT ![i] = Settle(@, resp, now + 1)]
    /\ now' = now + 1
    /\ UNCHANGED <<token, cmd, args, pc, frame, stdout, err, drawn, generated, router, extraction>>

\* A catch that lets every API error go, whatever its status.
IsApiError(e) == e.name = "BrexApiError"

\* error instanceof BrexApiError && error.status === 404
IsNotFound(e) == e.name = "BrexApiError" /\ e.status = 404

\* A catch block that lets a 404 on the cash request go whatever --type says.
CaughtWithType(n, type, c) == c.state = "rejected" /\ n = 1 /\ IsNotFound(c.err)

\* A catch block that lets every 404 go, on the card request too.
CaughtAgain(n, type, c) == c.state = "rejected" /\ type = Undefined /\ IsNotFound(c.err)

\* The catch block of getAccount lets the error go.
Caught(n, type, c) == c.state = "rejected" /\ type = Undefined /\ n = 1 /\ IsNotFound(c.err)

\* getAccount from a settled call on. Without --type the cash request is a
\* probe: a 404 API error on it is caught and the card request follows.
AfterAccount(n, type, c, cs) ==
    IF Caught(n, type, c)
    THEN /\ calls' = Append(cs, Fetch(Get(<<"/v2/accounts/card/", frame.id>>, <<>>),
                                      token, now + 1))
         /\ Await
    ELSE /\ calls' = cs
         /\ Conclude(c, [type |-> IF type = "card" \/ n = 2 THEN "card" ELSE "cash"])

Last(cs, c) == [cs EXCEPT ![Len(cs)] = c]

RespondGetAccount ==
    /\ pc = "await"
    /\ frame.fn = "getAccount"
    /\ Pending(Len(calls))
    /\ \E resp \in Responses(frame.fn) :
         AfterAccount(Len(calls), frame.scan.opts.type,
                      Settle(calls[Len(calls)], resp, now + 1),
                      Last(calls, Settle(calls[Len(calls)], resp, now + 1)))
    /\ now' = now + 1
    /\ UNCHANGED <<token, cmd, args, frame, drawn, generated, router, extraction>>

\* A body that takes the url and the event types given and nothing of the
\* existing webhook.
UpdateBodyOfOptions(o, current) ==
    [url |-> o.url, event_types |-> SplitEvents(o.events)]

\* The body updateWebhook sends: the options given, else the current fields.
UpdateBody(o, current) ==
    [url |-> IF o.url # Undefined THEN o.url ELSE current.url,
     event_types |-> IF Len(SplitEvents(o.events)) > 0 THEN SplitEvents(o.events)
                     ELSE current.event_types]

\* if (!current.url && !current.id) throw: the GET returned a webhook.
Retrieved(current) == ~Falsy(current.url) \/ ~Falsy(current.id)

\* updateWebhook from a settled call on: after the GET of the existing
\* webhook the PUT of the merged body, after the PUT the output.
AfterWebhook(n, o, c, cs) ==
    IF c.state = "rejected" \/ n = 2
    THEN /\ calls' = cs
         /\ Conclude(c, o)
    ELSE IF Nullish(c.value)
    THEN /\ calls' = cs
         /\ Rethrow(PropertyOfNothing)
    ELSE IF ~Retrieved(c.value)
    THEN /\ calls' = cs
         /\ Rethrow(Err("Error", "", "Could not retrieve existing webhook"))
    ELSE /\ calls' = Append(cs, Fetch(Request("PUT", <<"/v1/webhooks/", frame.id>>, <<>>,
                                              Undefined, UpdateBody(o, c.value)),
                                      token, now + 1))
         /\ Await

RespondUpdateWebhook ==
    /\ pc = "await"
    /\ frame.fn = "updateWebhook"
    /\ Pending(Len(calls))
    /\ \E resp \in Responses(frame.fn) :
         AfterWebhook(Len(calls), frame.scan.opts,
                      Settle(calls[Len(calls)], resp, now + 1),
                      Last(calls, Settle(calls[Len(calls)], resp, now + 1)))
    /\ now' = now + 1
    /\ UNCHANGED <<token, cmd, args, frame, drawn, generated, router, extraction>>

Next ==
    \/ Run
    \/ Respond
    \/ RespondAll
    \/ SettleLate
    \/ RespondGetAccount
    \/ RespondUpdateWebhook

Spec == Init /\ [][Next]_vars

\* The process, once started, enters run(): WF_vars(Run), with
\* ENABLED <<Run>>_vars written out as the state it holds in.
RunFair == []<>(pc # "start") \/ []<><<Run>>_vars

\* Every exchange sent is answered in the end, with a response or a failure,
\* and the process, once started, runs.
InitLive == Init /\ args \in ArgListsUpTo(cmd, MaxLiveArgs)

SpecLive ==
    /\ InitLive
    /\ [][Next]_vars
    /\ RunFair
    /\ WF_vars(Respond)
    /\ WF_vars(RespondAll)
    /\ WF_vars(SettleLate)
    /\ WF_vars(RespondGetAccount)
    /\ WF_vars(RespondUpdateWebhook)

\* ------------------------------------------------- a sequence of invocations

\* The commands that create or update a resource, and the argument lists
\* they are run with: with and without a key of the caller's.
MutatingCommands == {"transfer", "recipients", "webhooks"}

MutatingArgs(c) ==
    CASE c = "transfer" ->
           { stem \o tail :
               stem \in Stems(c) \ {<<>>}, tail \in {<<>>, <<"--idempotency-key", "k1">>} }
      [] c = "recipients" ->
           { <<"create", "--name", "v1">>,
             <<"create", "--name", "v1", "--idempotency-key", "k1">> }
      [] OTHER -> { <<"create", "--url", "w1">>, <<"update", "w1">> }

InitRepeat ==
    /\ token \in Tokens \ {"<null>"}
    /\ cmd \in MutatingCommands
    /\ args \in MutatingArgs(cmd)
    /\ pc = "start"
    /\ frame = NoFrame
    /\ calls = <<>>
    /\ stdout = <<>>
    /\ err = NoError
    /\ now = 0
    /\ drawn = 0
    /\ generated = <<>>
    /\ router = Registered12
    /\ extraction = NoExtraction

\* The process has ended and the command line is run again: a new process
\* with the same stored token; the values crypto.randomUUID() has given out
\* stay given out.
Again ==
    /\ pc \in {"done", "failed"}
    /\ drawn < MaxKeys
    /\ cmd' \in MutatingCommands
    /\ args' \in MutatingArgs(cmd')
    /\ pc' = "start"
    /\ frame' = NoFrame
    /\ calls' = <<>>
    /\ stdout' = <<>>
    /\ err' = NoError
    /\ now' = 0
    /\ UNCHANGED <<token, drawn, generated, router, extraction>>

NextRepeat ==
    \/ Run
    \/ Respond
    \/ RespondUpdateWebhook
    \/ Again

SpecRepeat == InitRepeat /\ [][NextRepeat]_vars

\* ------------------------------------------------------ filling the registry

\* The process starts with an empty registry and every descriptor to register.
InitRegistry ==
    /\ token \in Tokens
    /\ cmd = ""
    /\ args = <<>>
    /\ pc = "start"
    /\ frame = NoFrame
    /\ calls = <<>>
    /\ stdout = <<>>
    /\ err = NoError
    /\ now = 0
    /\ drawn = 0
    /\ generated = <<>>
    /\ router = Router({}, Commands, {}, "")
    /\ extraction = NoExtraction

\* One more descriptor is registered, in any order.
Register ==
    /\ router.left # {}
    /\ \E c \in router.left : router' = register(router, c)
    /\ UNCHANGED <<token, cmd, args, pc, frame, calls, stdout, err, now, drawn, generated,
                   extraction>>

\* dispatch(argv): the leading word is looked up; the command it resolves to
\* is the one to run, and a word that resolves to nothing is an error.
Dispatch ==
    /\ router.left = {}
    /\ router.word = ""
    /\ \E c \in Commands : \E i \in DOMAIN Words(c) :
         /\ router' = [router EXCEPT !.word = Words(c)[i]]
         /\ IF Cardinality(resolve(router, Words(c)[i])) = 1
            THEN /\ cmd' = CHOOSE d \in resolve(router, Words(c)[i]) : TRUE
                 /\ UNCHANGED <<pc, err>>
            ELSE /\ cmd' = cmd
                 /\ Fail(Err("UnknownCommandError", "", Words(c)[i]))
    /\ UNCHANGED <<token, args, frame, calls, stdout, now, drawn, generated, extraction>>

NextRegistry ==
    \/ Register
    \/ Dispatch

SpecRegistry == InitRegistry /\ [][NextRegistry]_vars

\* ------------------------------------------------- extractItems on its own

\* The envelopes a list endpoint may answer with: each property absent, an
\* empty array, an array of items, or no array.
Envelopes ==
    [EnvelopeKeys \ {"card_accounts"} ->
         {Absent, NotArray, Array(<<>>), Array(<<"x">>), Array(<<"y", "x">>)}]

Envelope(e) == [k \in EnvelopeKeys |-> IF k \in DOMAIN e THEN e[k] ELSE Absent]

\* The orders the keys may be configured in: any of them, each at most once.
KeyOrders ==
    { ks \in UNION { [1..n -> EnvelopeKeys \ {"card_accounts"}] : n \in 0..3 } :
        \A i, j \in DOMAIN ks : i # j => ks[i] # ks[j] }

InitExtract ==
    /\ token = "tok"
    /\ cmd = "accounts"
    /\ args = <<>>
    /\ pc = "start"
    /\ frame = NoFrame
    /\ calls = <<>>
    /\ stdout = <<>>
    /\ err = NoError
    /\ now = 0
    /\ drawn = 0
    /\ generated = <<>>
    /\ router = Registered12
    /\ extraction \in { [NoExtraction EXCEPT !.response = Envelope(e), !.keys = ks] :
                          e \in Envelopes, ks \in KeyOrders }

\* extractItems(response, keys) is called and returns.
Extract ==
    /\ ~extraction.done
    /\ extraction' = [extraction EXCEPT
                         !.done = TRUE,
                         !.result = extractItems(extraction.response, extraction.keys)]
    /\ UNCHANGED <<token, cmd, args, pc, frame, calls, stdout, err, now, drawn, generated,
                   router>>

NextExtract == Extract

SpecExtract == InitExtract /\ [][NextExtract]_vars

TypeOK ==
    /\ pc \in {"start", "await", "done", "failed"}
    /\ Len(calls) <= 2

\* ------------------------------------------------------------------ claims

\* The exchanges of all calls, and those whose response is in.
Exchanges == { <<i, k>> \in (DOMAIN calls) \X (1..2) : k \in DOMAIN calls[i].exchanges }

Answered(i, k) == calls[i].exchanges[k].doneAt > 0

RespOf(i, k) == calls[i].exchanges[k].resp

\* C1: when no bearer token is stored (null or empty), every call of the
\* client's fetch fails with the not-authenticated error and no HTTP request
\* is issued, whatever the command and the arguments.
C1_NoTokenNoRequest ==
    (token = "<null>" \/ token = "")
        => \A i \in DOMAIN calls :
             /\ calls[i].state = "rejected"
             /\ calls[i].err = NotAuthenticated
             /\ calls[i].exchanges = <<>>

\* The combined account listing was run with the empty token: both calls of
\* fetch were made and neither sent a request.
C1_Witness ==
    /\ token = ""
    /\ Len(calls) = 2
    /\ pc = "failed"
    /\ err = NotAuthenticated

\* C4: a response with a status outside 200-299 makes the call fail with an
\* API error of that status; the error's body is the parsed body when the
\* body is a JSON object, and has the error code 'HTTP <status>' otherwise.
C4_ApiErrorOfNon2xx ==
    \A e \in Exchanges :
       LET i == e[1]
           resp == RespOf(i, e[2])
       IN (Answered(i, e[2]) /\ resp.kind # "neterr" /\ resp.status \notin 200..299)
            => /\ calls[i].state = "rejected"
               /\ calls[i].err.name = "BrexApiError"
               /\ calls[i].err.status = resp.status
               /\ IF resp.kind = "json" /\ resp.json.t = "obj"
                  THEN calls[i].err.body = resp.json
                  ELSE /\ resp.status = 404 => calls[i].err.body.error = "HTTP 404"
                       /\ resp.status = 500 => calls[i].err.body.error = "HTTP 500"

\* A 500 response whose body is not JSON has been turned into an API error.
C4_Witness ==
    \E e \in Exchanges :
       /\ Answered(e[1], e[2])
       /\ RespOf(e[1], e[2]).status = 500
       /\ RespOf(e[1], e[2]).kind = "garbage"
       /\ calls[e[1]].err.name = "BrexApiError"
       /\ calls[e[1]].err.body.error = "HTTP 500"

\* C5: a 2xx response with status 204 or an empty or white-space body gives
\* the no-content value; with a JSON body it gives the decoded value; with a
\* body that is not JSON the call fails with a decode error, never with an
\* API error.
C5_DecodeOf2xx ==
    \A e \in Exchanges :
       LET i == e[1]
           resp == RespOf(i, e[2])
       IN (Answered(i, e[2]) /\ resp.kind # "neterr" /\ resp.status \in 200..299)
            => /\ calls[i].err.name # "BrexApiError"
               /\ IF resp.status = 204 \/ resp.kind \in {"empty", "blank"}
                  THEN calls[i].state = "resolved" /\ calls[i].value = JUndefined
                  ELSE IF resp.kind = "json"
                  THEN calls[i].state = "resolved" /\ calls[i].value = resp.json
                  ELSE calls[i].state = "rejected" /\ calls[i].err.name = "SyntaxError"

\* A 200 response with a body of white space only has been decoded.
C5_Witness ==
    \E e \in Exchanges :
       /\ Answered(e[1], e[2])
       /\ RespOf(e[1], e[2]).status = 200
       /\ RespOf(e[1], e[2]).kind = "blank"
       /\ calls[e[1]].state = "resolved"

\* C6: a call of the client's fetch sends at most one HTTP request; after a
\* failed exchange the request is not sent again.
C6_AtMostOneRequestPerCall ==
    \A i \in DOMAIN calls : Len(calls[i].exchanges) <= 1

\* A call has failed on its one exchange.
C6_Witness ==
    \E i \in DOMAIN calls :
       /\ calls[i].state = "rejected"
       /\ Len(calls[i].exchanges) = 1
       /\ calls[i].exchanges[1].doneAt > 0

\* The option parsers of a command, and the flags they register.
CommandParsers(c) ==
    CASE c = "accounts" -> {"accounts.list", "accounts.get"}
      [] c = "users" -> {"users.list"}
      [] c = "cards" -> {"cards.list"}
      [] c = "events" -> {"events.list"}
      [] c = "webhooks" -> {"webhooks.list", "webhooks.create", "webhooks.update"}
      [] c = "recipients" -> {"recipients.list", "recipients.create"}
      [] c = "transfer" -> {"transfer.create", "transfer.list"}
      [] c = "transactions" -> {"transactions.list"}
      [] c = "statements" -> {"statements.shared"}
      [] OTHER -> {}

CommandFlags(c) == UNION { FlagTable(P) : P \in CommandParsers(c) }

IsFlagOf(c, tok) == \E f \in CommandFlags(c) : f.flag = tok

\* The value is outside the domain of every enumeration the flag has in the
\* command.
OutOfDomain(c, tok, value) ==
    /\ \E f \in CommandFlags(c) : f.flag = tok /\ f.kind \in {"enum", "uenum"}
    /\ \A f \in CommandFlags(c) :
          (f.flag = tok /\ f.kind \in {"enum", "uenum"})
             => value \notin f.dom /\ ToUpperCase(value) \notin f.dom

\* A malformed flag sequence, reading left to right from index i: a flag of
\* the command with no token after it, an enumeration flag with a value out
\* of its domain, or a token starting with "-" that is neither a flag of the
\* command nor --json.
RECURSIVE Malformed(_, _, _)
Malformed(c, arglist, i) ==
    IF i > Len(arglist) THEN FALSE
    ELSE IF IsFlagOf(c, arglist[i])
    THEN \/ i = Len(arglist)
         \/ OutOfDomain(c, arglist[i], arglist[i + 1])
         \/ Malformed(c, arglist, i + 2)
    ELSE IF arglist[i] = "--json" THEN Malformed(c, arglist, i + 1)
    ELSE IF StartsWithDash(arglist[i]) THEN TRUE
    ELSE Malformed(c, arglist, i + 1)

\* C2: whatever the command, an argument list that contains a malformed flag
\* sequence makes the command fail with no HTTP request issued, also when
\* the sequence follows the positional arguments of a get subcommand or of
\* the organization command.
C2_MalformedFailsBeforeRequest ==
    (pc # "start" /\ Malformed(cmd, args, 1))
        => /\ pc = "failed"
           /\ \A i \in DOMAIN calls : calls[i].exchanges = <<>>

\* C3: in every option parser each token read as a value-taking flag takes
\* exactly the next token as its value, which is read as nothing else, and a
\* flag that is the last token makes the parse fail with an error naming it.
C3_FlagConsumesOneValue ==
    (pc # "start" /\ frame.scan.parser # "")
        => \A i \in DOMAIN frame.scan.roles :
              /\ "value" \in frame.scan.roles[i] => frame.scan.roles[i] = {"value"}
              /\ ("flag" \in frame.scan.roles[i] /\ i = Len(frame.scan.args))
                    => /\ frame.scan.err # NoError
                       /\ frame.scan.err.flag = frame.scan.args[i]

\* The exchange of call i failed, and when.
FailedAt(i) == calls[i].exchanges[Len(calls[i].exchanges)].doneAt

\* No request of another call went out once call i had failed.
NothingAfter(i) ==
    \A e \in Exchanges :
       (e[1] # i /\ calls[i].exchanges # <<>>)
          => calls[e[1]].exchanges[e[2]].issuedAt < FailedAt(i)

\* C7 as stated: every error is fatal; once a call of fetch has failed no
\* further request is issued and the command ends in failure.
C7_EveryErrorFatal ==
    \A i \in DOMAIN calls :
       calls[i].state = "rejected" => pc = "failed" /\ NothingAfter(i)

\* The cash request of `accounts get <id>` without --type has failed with an
\* API error of status 404.
ProbeNotFound(i) ==
    /\ frame.fn = "getAccount"
    /\ frame.scan.opts.type = Undefined
    /\ i = 1
    /\ calls[1].err.name = "BrexApiError"
    /\ calls[1].err.status = 404

\* C7 amended: every error is fatal but one: `accounts get <id>` without
\* --type catches an API error of status 404 on its cash request and issues
\* the card request in its place. After any other failed call no further
\* request is issued and the command ends in failure.
C7_FatalButProbe404 ==
    \A i \in DOMAIN calls :
       calls[i].state = "rejected"
          => IF ProbeNotFound(i)
             THEN /\ Len(calls) = 2
                  /\ calls[2].req.path = <<"/v2/accounts/card/", frame.id>>
             ELSE pc = "failed" /\ NothingAfter(i)

\* The cash request was answered 404, the card request followed and failed
\* with a 500: the command has failed.
C7_Witness ==
    /\ frame.fn = "getAccount"
    /\ Len(calls) = 2
    /\ calls[1].err.name = "BrexApiError"
    /\ calls[2].state = "rejected"
    /\ calls[2].err.name = "BrexApiError"
    /\ calls[2].err.status = 500
    /\ pc = "failed"

\* C8: a command writes its output only after its last HTTP exchange has
\* succeeded, and a command that fails has written nothing.
C8_AllOrNothingOutput ==
    /\ pc = "failed" => stdout = <<>>
    /\ (stdout # <<>> /\ calls # <<>>)
          => /\ calls[Len(calls)].state = "resolved"
             /\ \A i \in DOMAIN calls : calls[i].state # "pending"

\* The rows the combined listing is to show: the items of the cash response
\* in their order, then those of the card response in theirs.
ExpectedRows(cashItems, cardItems) ==
    [i \in 1..(Len(cashItems) + Len(cardItems)) |->
        IF i <= Len(cashItems)
        THEN [k |-> "row", id |-> cashItems[i], type |-> "cash"]
        ELSE [k |-> "row", id |-> cardItems[i - Len(cashItems)], type |-> "card"]]

\* C9: the combined account listing in table mode shows the cash rows in
\* response order, then the card rows in response order, whichever response
\* came first; there are as many rows as items in the two responses.
C9_CashRowsThenCardRows ==
    (Combined /\ frame.format = "table" /\ pc = "done")
       => LET cashItems == RespOf(1, 1).json.items
              cardItems == RespOf(2, 1).json.items
              rows == SelectSeq(stdout, LAMBDA line : line.k = "row")
          IN /\ rows = ExpectedRows(cashItems, cardItems)
             /\ Len(rows) = Len(cashItems) + Len(cardItems)
             /\ Len(rows) > 0 => stdout = << [k |-> "header"] >> \o rows

\* The card response came in before the cash response, two cash accounts and
\* a card account were listed.
C9_Witness ==
    /\ Combined
    /\ frame.format = "table"
    /\ pc = "done"
    /\ calls[2].exchanges[1].doneAt < calls[1].exchanges[1].doneAt
    /\ RespOf(1, 1).json.items = <<"x", "y">>
    /\ RespOf(2, 1).json.items = <<"y">>
    /\ Len(stdout) = 4

InFlight == { e \in Exchanges : ~Answered(e[1], e[2]) }

\* C10: at most one request is in flight at any moment, but for the combined
\* account listing, whose two requests (cash, card) go out together; there
\* nothing is written before both have been answered, and the command fails
\* as soon as either call fails.
C10_OneInFlightButCombined ==
    /\ ~Combined => Cardinality(InFlight) <= 1
    /\ (Combined /\ pc # "start" /\ token = "tok")
          => /\ Len(calls) = 2
             /\ calls[1].req.path = <<"/v2/accounts/cash">>
             /\ calls[2].req.path = <<"/v2/accounts/card">>
             /\ calls[1].exchanges[1].issuedAt = calls[2].exchanges[1].issuedAt
             /\ stdout # <<>> => InFlight = {} /\ \A i \in 1..2 : calls[i].state = "resolved"
             /\ (\E i \in 1..2 : calls[i].state = "rejected") => pc = "failed"

\* Both requests of the combined listing are in flight.
C10_Witness ==
    /\ Combined
    /\ Cardinality(InFlight) = 2

\* ------------------------------------------------------- claims: pagination

\* The character a percent escape stands for.
PercentDecode ==
    (<<"2", "0">> :> " ") @@ (<<"2", "B">> :> "+") @@ (<<"2", "5">> :> "%") @@
    (<<"2", "6">> :> "&") @@ (<<"3", "D">> :> "=")

\* URL decoding as the receiving server does it: "+" is a space, a percent
\* escape is its character, every other character is itself.
RECURSIVE UrlDecode(_)
UrlDecode(w) ==
    IF w = <<>> THEN <<>>
    ELSE IF w[1] = "+" THEN <<" ">> \o UrlDecode(Tail(w))
    ELSE IF w[1] = "%" /\ Len(w) >= 3 /\ <<w[2], w[3]>> \in DOMAIN PercentDecode
    THEN <<PercentDecode[<<w[2], w[3]>>]>> \o UrlDecode(SubSeq(w, 4, Len(w)))
    ELSE <<w[1]>> \o UrlDecode(Tail(w))

\* The index of the first sep in w, 0 when there is none.
FirstIndex(w, sep) ==
    IF \E k \in DOMAIN w : w[k] = sep
    THEN CHOOSE k \in DOMAIN w : w[k] = sep /\ \A j \in 1..(k - 1) : w[j] # sep
    ELSE 0

RECURSIVE SplitOn(_, _)
SplitOn(w, sep) ==
    IF FirstIndex(w, sep) = 0 THEN <<w>>
    ELSE <<SubSeq(w, 1, FirstIndex(w, sep) - 1)>>
         \o SplitOn(SubSeq(w, FirstIndex(w, sep) + 1, Len(w)), sep)

\* The decoded name and value of one name=value segment of a query string.
QueryPair(seg) ==
    IF FirstIndex(seg, "=") = 0 THEN <<UrlDecode(seg), <<>>>>
    ELSE <<UrlDecode(SubSeq(seg, 1, FirstIndex(seg, "=") - 1)),
           UrlDecode(SubSeq(seg, FirstIndex(seg, "=") + 1, Len(seg)))>>

\* The values of the 'cursor' parameters of a query string, decoded.
CursorParams(query) ==
    IF query = <<>> THEN <<>>
    ELSE LET pairs == [i \in DOMAIN SplitOn(query, "&") |-> QueryPair(SplitOn(query, "&")[i])]
             cursors == SelectSeq(pairs, LAMBDA p : p[1] = <<"cursor">>)
         IN [i \in DOMAIN cursors |-> cursors[i][2]]

\* The values given with --cursor: the tokens after each --cursor the option
\* parser read as a flag.
GivenCursors ==
    { At(frame.scan.args, j + 1) :
        j \in { k \in DOMAIN frame.scan.roles :
                  frame.scan.args[k] = "--cursor" /\ "flag" \in frame.scan.roles[k] } }

\* The request goes to the list endpoint of the command.
ToListEndpoint(c, req) ==
    /\ req.method = "GET"
    /\ CASE c = "accounts" -> req.path \in {<<"/v2/accounts/cash">>, <<"/v2/accounts/card">>}
         [] c = "users" -> req.path = <<"/v2/users">>
         [] c = "cards" -> req.path = <<"/v2/cards">>
         [] c = "events" -> req.path = <<"/v1/events">>
         [] c = "webhooks" -> req.path = <<"/v1/webhooks">>
         [] c = "recipients" -> req.path = <<"/v1/vendors">>
         [] c = "transfer" -> req.path = <<"/v1/transfers">>
         [] c = "transactions" ->
              req.path[1] \in {"/v2/transactions/cash/", "/v2/transactions/card/primary"}
         [] c = "statements" ->
              \/ req.path = <<"/v2/accounts/card/primary/statements">>
              \/ (Len(req.path) = 3 /\ req.path[1] = "/v2/accounts/card/additional/"
                    /\ req.path[3] = "/statements")
         [] OTHER -> FALSE

\* C11: every request of a list command goes to the command's list endpoint;
\* when one non-empty cursor c is given with --cursor the request has one
\* 'cursor' query parameter and its URL-decoded value is c, character for
\* character; when no --cursor is given the request has no cursor parameter.
C11_CursorForwardedVerbatim ==
    (pc # "start" /\ frame.fn \in ListFns)
       => /\ calls # <<>>
          /\ \A i \in DOMAIN calls :
                /\ ToListEndpoint(cmd, calls[i].req)
                /\ GivenCursors = {} => CursorParams(calls[i].req.query) = <<>>
                /\ \A c \in GivenCursors :
                      GivenCursors = {c}
                         => CursorParams(calls[i].req.query) = << Chars(c) >>

\* A cursor holding reserved characters was given to the statements listing,
\* whose handler builds the query with encodeURIComponent; the request went
\* out with the escapes and decodes to the cursor given.
C11_Witness ==
    /\ frame.fn = "listStatements"
    /\ GivenCursors = {ReservedCursor}
    /\ Len(calls) = 1
    /\ calls[1].exchanges # <<>>
    /\ \E k \in DOMAIN calls[1].req.query : calls[1].req.query[k] = "%"
    /\ CursorParams(calls[1].req.query) = << Chars(ReservedCursor) >>

\* The HTTP requests sent so far.
RequestsSent == Cardinality(Exchanges)

\* C12: a list invocation fetches one page per source: it makes one call of
\* fetch (two for the combined account listing), each sends at most one
\* request, and a listing that has ended well has sent exactly one request
\* (two for the combined listing), whatever next_cursor the responses carry.
C12_OnePagePerSource ==
    (frame.fn \in ListFns /\ pc # "start")
       => /\ Len(calls) = IF Combined THEN 2 ELSE 1
          /\ RequestsSent <= Len(calls)
          /\ pc = "done" => RequestsSent = Len(calls) /\ InFlight = {}

\* A transfer listing has ended well on a response that names a next page.
C12_Witness ==
    /\ frame.fn = "listTransfers"
    /\ pc = "done"
    /\ RespOf(1, 1).json.next_cursor = "n1"
    /\ RequestsSent = 1

\* The object a page is to be printed as: the items of the response in
\* their order and its next cursor, null when it has none.
ExpectedPage(r) ==
    [items |-> r.items,
     nextCursor |-> IF r.next_cursor = Undefined THEN "<null>" ELSE r.next_cursor]

NoneFound(c) ==
    CASE c = "accounts" -> {"No accounts found."}
      [] c = "users" -> {"No users found."}
      [] c = "cards" -> {"No cards found."}
      [] c = "events" -> {"No events found."}
      [] c = "webhooks" -> {"No webhooks found."}
      [] c = "recipients" -> {"No recipients found.", "No vendors found."}
      [] c = "transfer" -> {"No transfers found."}
      [] c = "transactions" -> {"No transactions found."}
      [] c = "statements" -> {"No statements found."}
      [] OTHER -> {}

\* A list command in table mode has ended well.
ListedAsTable == frame.fn \in ListFns /\ frame.format = "table" /\ pc = "done"

\* The items of all responses of the listing, and the next cursors they carry.
ItemsListed == Len(RespOf(1, 1).json.items) + (IF Combined THEN Len(RespOf(2, 1).json.items) ELSE 0)

NextCursors == { RespOf(i, 1).json.next_cursor : i \in DOMAIN calls } \ {Undefined}

\* C14: a list command in table mode whose response holds no items writes
\* the one line 'No <resource> found.' for the resource of the command, and
\* nothing else: no header, no cursor hint.
C14_EmptyListOneLine ==
    (ListedAsTable /\ ItemsListed = 0)
       => /\ Len(stdout) = 1
          /\ stdout[1].k = "text"
          /\ stdout[1].text \in NoneFound(cmd)

\* C14 for every list command but webhooks and the account listing of one
\* type: these write the one line.
C14_ButWebhooksAndAccountPages ==
    (cmd # "webhooks" /\ (cmd = "accounts" => Combined)) => C14_EmptyListOneLine

\* The hint lines written, and the lines before the first of them.
HintLines == SelectSeq(stdout, LAMBDA line : line.k = "hint")

\* C15: a list command in table mode with at least one row writes, after the
\* table, a continuation hint holding the next cursor of each response that
\* carries one, and no hint when no response carries one; the combined
\* account listing too, for each of its two sources.
C15_HintIffNextCursor ==
    (ListedAsTable /\ ItemsListed > 0)
       => /\ { HintLines[k].cursor : k \in DOMAIN HintLines } = NextCursors
          /\ \A k \in DOMAIN stdout :
                stdout[k].k = "hint" => \A j \in k..Len(stdout) : stdout[j].k = "hint"

\* C15 for the listings of one source: the hint is written exactly when the
\* response carries a next cursor.
C15_ButCombined == ~Combined => C15_HintIffNextCursor

\* ---------------------------------------------------- claims: idempotency

\* The requests that create or update a resource.
Mutating(req) == req.method \in {"POST", "PUT"}

\* C16: every request that creates or updates a resource (the POST of a
\* transfer, a vendor or a webhook, the PUT of a webhook) carries an
\* Idempotency-Key header with a non-empty value.
C16_MutationsCarryKey ==
    \A i \in DOMAIN calls : Mutating(calls[i].req) => ~Falsy(calls[i].req.key)

\* C16 for the requests that create: each POST carries a key.
C16_PostsCarryKey ==
    \A i \in DOMAIN calls : calls[i].req.method = "POST" => ~Falsy(calls[i].req.key)

\* The parsers of the create commands.
CreateParsers == {"transfer.create", "recipients.create", "webhooks.create"}

\* The keys given with --idempotency-key: the tokens after each
\* --idempotency-key the option parser read as a flag.
GivenKeys ==
    { At(frame.scan.args, j + 1) :
        j \in { k \in DOMAIN frame.scan.roles :
                  frame.scan.args[k] = "--idempotency-key" /\ "flag" \in frame.scan.roles[k] } }

\* C17: each create command takes --idempotency-key: its parser never turns
\* the flag down as unknown, the POST carries the key given, and carries a
\* generated key only when none was given.
C17_SuppliedKeyIsSent ==
    (pc # "start" /\ frame.scan.parser \in CreateParsers)
       => /\ ~(frame.scan.err.flag = "--idempotency-key"
                 /\ frame.scan.err.text = "Unknown option")
          /\ \A i \in DOMAIN calls :
                /\ \A k \in GivenKeys : GivenKeys = {k} => calls[i].req.key = k
                /\ calls[i].req.key \in Uuids => GivenKeys = {}

\* C17 for the transfer and recipients commands, whose parsers read the flag.
C17_ButWebhooks == cmd # "webhooks" => C17_SuppliedKeyIsSent

\* C18: over any sequence of invocations of the mutating commands, no two
\* generated idempotency keys are equal, and a POST sent without a key of
\* the caller's carries the key generated last, which no earlier invocation
\* generated.
C18_GeneratedKeysFresh ==
    /\ \A i, j \in DOMAIN generated : i # j => generated[i] # generated[j]
    /\ \A i \in DOMAIN calls :
          (calls[i].req.method = "POST" /\ GivenKeys = {})
             => /\ generated # <<>>
                /\ calls[i].req.key = generated[Len(generated)]
                /\ \A j \in 1..(Len(generated) - 1) : generated[j] # calls[i].req.key

\* A second invocation without a key has sent its POST, after a first that
\* had generated a key too.
C18_Witness ==
    /\ Len(generated) = 2
    /\ frame.fn = "createTransfer"
    /\ GivenKeys = {}
    /\ Len(calls) = 1
    /\ calls[1].exchanges # <<>>
    /\ calls[1].req.key = generated[2]
    /\ generated[1] # generated[2]

\* ---------------------------------------------------------- claims: registry

\* C19: over the twelve command descriptors, no string is the name or an
\* alias of two commands and no descriptor lists a string twice: registering
\* them in any order raises no duplicate, every registered word maps to one
\* command, and once all are registered each name and alias resolves to its
\* own command.
C19_NamesAndAliasesUnique ==
    /\ router.raised = {}
    /\ \A p, q \in router.registry : p[1] = q[1] => p[2] = q[2]
    /\ \A c \in Commands \ router.left :
          \A i \in DOMAIN Words(c) : resolve(router, Words(c)[i]) = {c}
    /\ \A c \in Commands : \A i, j \in DOMAIN Words(c) : i # j => Words(c)[i] # Words(c)[j]
    /\ router.word # "" => router.word \in { Words(cmd)[i] : i \in DOMAIN Words(cmd) }

\* All twelve descriptors are registered and the alias 'cat' was dispatched
\* to the categories command.
C19_Witness ==
    /\ router.left = {}
    /\ Cardinality(router.registry) = 28
    /\ router.word = "cat"
    /\ cmd = "categories"

\* ------------------------------------------------------ claims: subcommands

\* The list parser of the commands whose usage reads `brex <command> [list]`.
ListParserOf(c) ==
    CASE c = "recipients" -> "recipients.list"
      [] c = "cards" -> "cards.list"
      [] c = "users" -> "users.list"
      [] c = "webhooks" -> "webhooks.list"
      [] OTHER -> "events.list"

\* The invocation names no subcommand and begins with a flag of the list
\* parser of its command (--json apart).
BeginsWithListFlag ==
    /\ cmd \in {"recipients", "cards", "users", "webhooks", "events"}
    /\ parseOutputFlag(args).args # <<>>
    /\ Registered(ListParserOf(cmd), parseOutputFlag(args).args[1])

\* The frame and the requests of the invocation are those of the plan.
RunsAs(plan) ==
    /\ frame.fn = plan.fn
    /\ frame.format = plan.format
    /\ frame.scan.opts = plan.scan.opts
    /\ frame.scan.err = plan.scan.err
    /\ plan.err = NoError
          => /\ Len(calls) = 1
             /\ <<calls[1].req>> = FirstRequests(plan.fn, plan.id, plan.scan.opts, "")
    /\ plan.err # NoError => calls = <<>> /\ err = plan.err

\* C20: for recipients, cards, users, webhooks and events, an invocation that
\* begins with a list flag and has no 'list' token parses the same options
\* and sends the same list request as the invocation with 'list' put first.
C20_ListTokenOptional ==
    (pc # "start" /\ BeginsWithListFlag) => RunsAs(Route(cmd, <<"list">> \o args, ""))

\* C20 for cards and recipients, whose run() takes a leading flag for the
\* options of a listing.
C20_ButUsersWebhooksEvents ==
    cmd \in {"cards", "recipients"} => C20_ListTokenOptional

\* ------------------------------------------------------------------- C21..C30

\* A field of a request body, undefined when the body has none of the name.
Sent(body, field) == IF field \in DOMAIN body THEN body[field] ELSE Undefined

\* The requests of createWebhook and updateWebhook that write a webhook.
WebhookWrites ==
    { i \in DOMAIN calls :
        frame.fn \in {"createWebhook", "updateWebhook"}
          /\ calls[i].req.method \in {"POST", "PUT"} }

\* C21: the status given with --status to webhooks update (and to webhooks
\* create) is the status field of the body of the PUT (POST) request.
C21_StatusIsSent ==
    \A i \in WebhookWrites :
        frame.scan.opts.status # Undefined
          => Sent(calls[i].req.body, "status") = frame.scan.opts.status

\* When the request of a call went out and when its response came in.
IssuedAt(call) == call.exchanges[1].issuedAt
DoneAt(call) == call.exchanges[Len(call.exchanges)].doneAt

\* C23: webhooks update sends its GET strictly before its PUT, and the PUT
\* only after the GET succeeded and returned a webhook with an id or a url;
\* the url and event_types of the PUT body are the --url and the non-empty
\* --events given, and those of the webhook the GET returned otherwise.
C23_GetThenMergedPut ==
    frame.fn = "updateWebhook" =>
        /\ Len(calls) <= 2
        /\ \A i \in DOMAIN calls : calls[i].req.method = IF i = 1 THEN "GET" ELSE "PUT"
        /\ Len(calls) = 2 =>
              /\ calls[1].state = "resolved"
              /\ ~Falsy(calls[1].value.id) \/ ~Falsy(calls[1].value.url)
              /\ DoneAt(calls[1]) > 0
              /\ calls[2].exchanges # <<>> =>
                    /\ IssuedAt(calls[1]) < IssuedAt(calls[2])
                    /\ DoneAt(calls[1]) <= IssuedAt(calls[2])
              /\ calls[2].req.body.url =
                    IF frame.scan.opts.url # Undefined THEN frame.scan.opts.url
                    ELSE calls[1].value.url
              /\ calls[2].req.body.event_types =
                    IF frame.scan.opts.events \notin {Undefined, ","}
                    THEN << frame.scan.opts.events >>
                    ELSE calls[1].value.event_types

\* An update that gives no --url has put the url and the event types of the
\* webhook it got.
C23_Witness ==
    /\ frame.fn = "updateWebhook"
    /\ pc = "done"
    /\ Len(calls) = 2
    /\ frame.scan.opts.url = Undefined
    /\ calls[2].req.body.url = "https://old"
    /\ calls[2].req.body.event_types = <<"ev0">>

\* The invocation is of the statements command and its options are read.
StatementsRead == cmd = "statements" /\ pc # "start" /\ "scope" \in DOMAIN frame.scan.opts

\* C22: statements list and get with scope additional and no --account-id
\* fail before any request; with scope primary (the default) the request goes
\* to the primary-statements path, which holds no account id; with scope
\* additional the path holds the account id given, once, as it was given.
C22_ScopePicksEndpoint ==
    StatementsRead =>
        /\ (frame.scan.opts.scope = "additional" /\ Falsy(frame.scan.opts.accountId))
              => (pc = "failed" /\ calls = <<>>)
        /\ \A i \in DOMAIN calls :
              /\ Len(calls[i].req.path) =
                    (IF frame.fn = "getStatement" THEN 3 ELSE 1)
                      + (IF frame.scan.opts.scope = "primary" THEN 0 ELSE 2)
              /\ frame.scan.opts.scope = "primary" =>
                    /\ calls[i].req.path[1] = "/v2/accounts/card/primary/statements"
                    /\ frame.fn = "getStatement" =>
                          SubSeq(calls[i].req.path, 2, 3) = <<"/", frame.id>>
              /\ frame.scan.opts.scope = "additional" =>
                    /\ SubSeq(calls[i].req.path, 1, 3) =
                          <<"/v2/accounts/card/additional/", frame.scan.opts.accountId,
                            "/statements">>
                    /\ frame.fn = "getStatement" =>
                          SubSeq(calls[i].req.path, 4, 5) = <<"/", frame.id>>

\* A statement of an additional card account was fetched and shown.
C22_Witness ==
    /\ StatementsRead
    /\ frame.fn = "getStatement"
    /\ pc = "done"
    /\ frame.scan.opts.scope = "additional"
    /\ calls[1].req.path[2] = "acct1"

\* The endpoint of one account of a type.
AccountPath(type) == << IF type = "card" THEN "/v2/accounts/card/" ELSE "/v2/accounts/cash/",
                        frame.id >>

\* C24: accounts get without --type asks for the cash account first and for
\* the card account only after the cash request was answered with status 404
\* and failed with the API error of it; after a cash request that succeeded
\* or failed otherwise there is no card request. With --type given there is
\* one request, to the endpoint of the type.
C24_CashThenCardOn404 ==
    frame.fn = "getAccount" =>
        /\ \A i \in DOMAIN calls : calls[i].req.method = "GET"
        /\ frame.scan.opts.type = Undefined =>
              /\ Len(calls) \in 1..2
              /\ calls[1].req.path = AccountPath("cash")
              /\ Len(calls) = 2 =>
                    /\ calls[2].req.path = AccountPath("card")
                    /\ Len(calls[1].exchanges) = 1
                    /\ Answered(1, 1)
                    /\ RespOf(1, 1).status = 404
                    /\ RespOf(1, 1).kind # "neterr"
                    /\ calls[1].state = "rejected"
                    /\ calls[1].err.name = "BrexApiError"
                    /\ DoneAt(calls[1]) <= IssuedAt(calls[2])
              /\ (calls[1].state = "resolved"
                     \/ (calls[1].state = "rejected" /\ ~ProbeNotFound(1)))
                    => (Len(calls) = 1 /\ pc \in {"done", "failed"})
        /\ frame.scan.opts.type # Undefined =>
              /\ Len(calls) = 1
              /\ calls[1].req.path = AccountPath(frame.scan.opts.type)
              /\ Len(calls[1].exchanges) <= 1

\* The cash request was answered 404 and the card account was shown.
C24_Witness ==
    /\ frame.fn = "getAccount"
    /\ pc = "done"
    /\ frame.scan.opts.type = Undefined
    /\ Len(calls) = 2
    /\ calls[2].req.path = AccountPath("card")

\* The invocation is transfer create and its options are read.
CreateRead ==
    /\ cmd = "transfer"
    /\ pc # "start"
    /\ At(args, 1) = "create"
    /\ "fromAccountId" \in DOMAIN frame.scan.opts

\* The tokens given as the value of a flag.
ValuesOf(flag) == { At(args, i + 1) : i \in { k \in DOMAIN args : args[k] = flag } }

\* The tokens that are a positive integer, and those parseInt reads one from.
PositiveIntegers == {"5", "12"}
PositivePrefixed == { tok \in DOMAIN IntPrefix : IntPrefix[tok] > 0 }

\* The options transfer create requires, with the amounts taken for good.
CompleteWith(amounts) ==
    /\ ~Falsy(frame.scan.opts.fromAccountId)
    /\ ValuesOf("--amount") # {}
    /\ ValuesOf("--amount") \subseteq amounts
    /\ ~Falsy(frame.scan.opts.description)
    /\ ~Falsy(frame.scan.opts.externalMemo)
    /\ (ValuesOf("--memo") \cup ValuesOf("--external-memo")) \cap LongTokens = {}
    /\ ~Falsy(frame.scan.opts.toPaymentInstrumentId)
          # ~Falsy(frame.scan.opts.toDepositAccountId)

\* The body of the request names the counterparty the options name.
CounterpartyAsGiven(body) ==
    IF ~Falsy(frame.scan.opts.toDepositAccountId)
    THEN body.counterparty_type = "BOOK_TRANSFER"
           /\ body.counterparty_id = frame.scan.opts.toDepositAccountId
    ELSE body.counterparty_type = "VENDOR"
           /\ body.counterparty_id = frame.scan.opts.toPaymentInstrumentId

SentOnlyWhen(amounts) ==
    CreateRead =>
        /\ calls # <<>> => CompleteWith(amounts)
        /\ ~CompleteWith(amounts) => pc = "failed"
        /\ \A i \in DOMAIN calls :
              calls[i].req.method = "POST" /\ CounterpartyAsGiven(calls[i].req.body)

\* C25: transfer create sends its request only when --from, --amount with a
\* positive integer, --description, --memo of at most 90 characters and
\* exactly one of --to and --to-account are given, and fails without a
\* request otherwise; the counterparty is BOOK_TRANSFER with the --to-account
\* id when --to-account is given, VENDOR with the --to id otherwise.
C25_SentOnlyWhenComplete == SentOnlyWhen(PositiveIntegers)

\* C25 with every amount that begins with a positive integer taken for one.
C25_ButAmountPrefix == SentOnlyWhen(PositivePrefixed)

\* The keys, in order, that hold a non-empty array (an array).
HoldingItems(response, keys) ==
    { i \in DOMAIN keys : response[keys[i]].t = "array" /\ Len(response[keys[i]].items) > 0 }
HoldingArray(response, keys) == { i \in DOMAIN keys : response[keys[i]].t = "array" }

\* The value of the first key of those, the empty sequence when there is none.
FirstOf(holding, response, keys) ==
    IF holding = {} THEN <<>>
    ELSE response[keys[CHOOSE i \in holding : \A j \in holding : i <= j]].items

\* C26: for every response and key order, extractItems returns the value of
\* the first key, in order, that holds a non-empty sequence of items, and the
\* empty sequence only when no key holds one.
C26_FirstNonEmptyWins ==
    extraction.done =>
        extraction.result =
            FirstOf(HoldingItems(extraction.response, extraction.keys),
                    extraction.response, extraction.keys)

\* C26 with the first key that holds an array, empty or not.
C26_FirstArrayWins ==
    extraction.done =>
        extraction.result =
            FirstOf(HoldingArray(extraction.response, extraction.keys),
                    extraction.response, extraction.keys)

\* The lines written that are a JSON document.
JsonLines == SelectSeq(stdout, LAMBDA line : line.k = "json")

OneMode ==
    IF parseOutputFlag(args).format = "json"
    THEN Len(stdout) = 1 /\ Len(JsonLines) = 1
    ELSE Len(JsonLines) = 0

\* C27: the output mode is that of --json for the whole invocation: with
\* --json a command that ends well (recipients delete and webhooks delete
\* too) has written one JSON document and no line of text, and without it no
\* command writes a JSON document.
C27_OneModePerInvocation == pc = "done" => OneMode

\* C27 for every command but the two deletes and version.
C27_ButDeletesAndVersion ==
    (pc = "done" /\ frame.fn \notin {"deleteWebhook", "deleteVendor", "version"}) => OneMode

\* The invocation is an account listing and its options are read.
ListingRead ==
    /\ cmd = "accounts"
    /\ pc # "start"
    /\ "cursor" \in DOMAIN frame.scan.opts

\* C28: accounts list of type all (the default) with a cursor fails before
\* any request; the two requests of a combined listing carry no cursor; a
\* cursor is sent only by a listing of --type cash or --type card, in its
\* one request, to the endpoint of that type.
C28_CursorNeedsOneType ==
    ListingRead =>
        /\ (frame.scan.opts.type = "all" /\ ~Falsy(frame.scan.opts.cursor))
              => (pc = "failed" /\ calls = <<>>)
        /\ Len(calls) = 2 =>
              /\ calls[1].req.path = <<"/v2/accounts/cash">>
              /\ calls[2].req.path = <<"/v2/accounts/card">>
              /\ calls[1].req.query = <<>>
              /\ calls[2].req.query = <<>>
        /\ \A i \in DOMAIN calls :
              calls[i].req.query # <<>> =>
                  /\ Len(calls) = 1
                  /\ frame.scan.opts.type \in {"cash", "card"}
                  /\ calls[i].req.path =
                        << IF frame.scan.opts.type = "cash" THEN "/v2/accounts/cash"
                           ELSE "/v2/accounts/card" >>
                  /\ CursorParams(calls[i].req.query) = << Chars(frame.scan.opts.cursor) >>

\* The card accounts were listed from a cursor on.
C28_Witness ==
    /\ ListingRead
    /\ pc = "done"
    /\ frame.scan.opts.type = "card"
    /\ frame.scan.opts.cursor = "c1"
    /\ calls[1].req.query # <<>>

\* The HTTP requests the calls made so far have sent.
RECURSIVE TotalRequests(_)
TotalRequests(cs) == IF cs = <<>> THEN 0 ELSE Len(Head(cs).exchanges) + TotalRequests(Tail(cs))

\* The three paths that send a second request.
TwoRequestPath ==
    \/ frame.fn = "listAccounts" /\ frame.scan.opts.type \notin {"cash", "card"}
    \/ /\ frame.fn = "getAccount"
       /\ frame.scan.opts.type = Undefined
       /\ RespOf(1, 1).status = 404
    \/ frame.fn = "updateWebhook"

\* C29: an invocation sends at most two HTTP requests, and two only as the
\* combined account listing, as accounts get without --type after a 404, or
\* as webhooks update; on every other path it sends at most one.
C29_AtMostTwoRequests ==
    /\ TotalRequests(calls) <= 2
    /\ TotalRequests(calls) = 2 => TwoRequestPath

\* A webhook was updated: the GET and the PUT went out, no request more.
C29_Witness ==
    /\ pc = "done"
    /\ frame.fn = "updateWebhook"
    /\ TotalRequests(calls) = 2

\* The invocation has ended: its output is written or it has failed.
Terminated == pc \in {"done", "failed"}

\* C30: when every exchange sent is answered in the end, every invocation
\* ends, its output written or failed with an error, and stays ended: no
\* command waits on anything else or goes round over requests.
C30_Terminates == <>[]Terminated

\* The combined listing has ended after both of its exchanges were answered.
C30_Witness ==
    /\ Terminated
    /\ Combined
    /\ \A i \in DOMAIN calls : calls[i].state # "pending"
    /\ TotalRequests(calls) = 2

====
